---- MODULE Spec2Model ----
(***************************************************************************)
(* Verification model of the rooting layer of the script crate            *)
(* (dom/bindings/js.rs, refcounted.rs, inheritance.rs, typed.rs) and of   *)
(* the part of script_thread.rs that serves it.                           *)
(***************************************************************************)
EXTENDS Integers, Sequences, FiniteSets, TLC

(***************************************************************************)
(* Bounds of the model.                                                    *)
(***************************************************************************)
MaxHandles == 2
MaxRoots == 3
MaxCreated == 3
MaxQueue == 2
MaxSent == 3

MaxRunnables == 3

MaxCalls == 2

MaxListenerCalls == 3

(***************************************************************************)
(* Threads and their thread_state.  script1 is the script thread that owns *)
(* the DOM objects and the script port; script2 is another thread spawned  *)
(* with thread_state::SCRIPT (the script thread of another pipeline);      *)
(* layout1 is a layout thread.                                             *)
(***************************************************************************)
Threads == {"script1", "script2", "layout1"}

OwnerThread == "script1"

ThreadState(t) == IF t \in {"script1", "script2"} THEN "SCRIPT" ELSE "LAYOUT"

is_script(t) == ThreadState(t) = "SCRIPT"

is_layout(t) == ThreadState(t) = "LAYOUT"

Objects == {"o1", "o2"}

NoPtr == "null"

VARIABLES
    debug_assertions,   \* the build: are debug_assert! checks compiled in
    heap,               \* DOM objects allocated by Root::new_box (nothing frees them)
    roots,              \* root slot -> ptr of a live Root<T> of the owning thread, or NoPtr
    last_root_dropped,  \* ptr of the Root destroyed last, or NoPtr
    live_references,    \* the table of LiveDOMReferences: ptr -> count
    script_port,        \* CommonScriptMsg queue of the owning script thread
    created,            \* per object: Trusted handles made so far (new + clone)
    dropped,            \* per object: Trusted handles dropped so far
    zeroed,             \* objects whose number of handles fell to zero at some point
    panicked,           \* threads stopped by an assertion failure
    root_call,          \* the last Trusted::root call: [thread, ptr, outcome]
    call,               \* the last call of a js.rs reference operation: [op, thread, outcome]
    cell,               \* a MutNullableHeap<JS<T>>: the stored ptr, or NoPtr for None
    cb_calls,           \* initializer invocations by or_init since the last set
    or_init_returns,    \* identities or_init returned since the last set
    cell_call,          \* the last cell operation
    cell_last_set,      \* the value given to the cell by new or by the latest set
    mutheap,            \* a MutHeap<JS<T>>: the stored ptr
    mutheap_last_set,   \* the value given to the MutHeap by new or by the latest set
    cast_in,            \* the object and target of a cast: [via, ptr, ty, to]
    cast,               \* what is::<U>() and downcast::<U>() returned for cast_in
    devtools_chan,      \* ScriptThread.devtools_chan.is_some()
    ports,              \* source -> the messages waiting on its port, oldest first
    sent,               \* messages sent on each port so far
    pc,                 \* where the thread is in start / handle_msgs
    event,              \* handle_msgs: the message being collected
    sequential,         \* handle_msgs: the batch
    mouse_move_event_index, \* handle_msgs: index of the queued mouse move, 0 for None
    animation_ticks,    \* handle_msgs: pipelines with a queued TickAllAnimations
    next_msg,           \* handle_msgs: index of the next message of the batch to dispatch
    page_tree,          \* ScriptThread.page: the pipelines of the page tree, root first
    frames,             \* pages whose frame is set
    incomplete_loads,   \* ScriptThread.incomplete_loads
    closed_pipelines,   \* ScriptThread.closed_pipelines
    resize_event,       \* per page: Window.resize_event, 0 for None
    window_size,        \* per page: the size of its window, 0 before any resize
    pending_reflow_count, \* per page: Window.pending_reflow_count
    collected,          \* the messages received for the batch so far, in order
    handled,            \* the messages of the batch dispatched so far, in order
    effects,            \* every message applied so far, in the order of application
    last_poll,          \* the latest poll of the ports: [ready, taken]
    resize_seen,        \* per page: size of the latest Resize applied and not yet handled
    resize_due,         \* per page: resize_seen as it was when resizes were last stolen
    resize_handled,     \* the resize events handled when resizes were last stolen
    reflows,            \* the batched reflows issued by the latest handle_msgs
    returned,           \* what the latest handle_msgs returned: "none", "true", "false"
    cancelled,          \* wrapper -> RunnableWrapper.cancelled
    runnable_of,        \* runnable -> the wrapper it was wrapped by, or NoWrapper
    run_state,          \* runnable -> "queued", "running", "done" or "discarded"
    flag_at_dispatch,   \* runnable -> its flag when it was dispatched: "unread", "set", "clear"
    thread_pc,          \* where the thread is in the closure of ScriptThreadFactory::create
    failsafe_owner,     \* ScriptMemoryFailsafe.owner.is_some()
    windows,            \* pipeline -> the state of the window of its page
    layout_log,         \* what was done to layouts, contexts and frames, in order
    devtools_out,       \* the messages sent on devtools_chan, in order
    thread_call,        \* the last handler call: [op, id, target, outcome, terminal]
    thread_calls,       \* handler calls made so far
    handlers,           \* EventTarget.handlers: event type -> its EventListeners
    listener_eq,        \* how two EventListener values compare: "identity" or "always"
    listener_call,      \* the last call on the EventTarget: [op, ty, entry, before]
    listener_calls      \* calls made on the EventTarget so far

rootVars == <<heap, roots, last_root_dropped>>

trustedVars == <<live_references, script_port, created, dropped, zeroed, panicked, root_call>>

flavorVars == <<call>>

cellVars == <<cell, cb_calls, or_init_returns, cell_call, cell_last_set, mutheap, mutheap_last_set>>

castVars == <<cast_in, cast>>

loopVars == <<devtools_chan, ports, sent, pc, event, sequential, mouse_move_event_index,
              animation_ticks, next_msg, page_tree, frames, incomplete_loads,
              closed_pipelines, resize_event, window_size, pending_reflow_count,
              collected, handled, effects, last_poll, resize_seen, resize_due,
              resize_handled, reflows, returned>>

\* The variables of the event loop that are local to handle_msgs or belong to
\* the ports and the windows of the loop.
loopRest == <<ports, sent, pc, event, sequential, mouse_move_event_index,
              animation_ticks, next_msg, resize_event, window_size, pending_reflow_count,
              collected, handled, effects, last_poll, resize_seen, resize_due,
              resize_handled, reflows, returned>>

runnableVars == <<cancelled, runnable_of, run_state, flag_at_dispatch>>

threadVars == <<thread_pc, failsafe_owner, windows, layout_log, devtools_out, thread_call,
                thread_calls>>

listenerVars == <<handlers, listener_eq, listener_call, listener_calls>>

vars == <<debug_assertions, rootVars, trustedVars, flavorVars, cellVars, castVars, loopVars,
          runnableVars, threadVars, listenerVars>>

\* What an action of one part of the model leaves alone.
RootsOnly ==
    UNCHANGED <<debug_assertions, trustedVars, flavorVars, cellVars, castVars, loopVars,
                runnableVars, threadVars, listenerVars>>

TrustedOnly ==
    UNCHANGED <<debug_assertions, rootVars, flavorVars, cellVars, castVars, loopVars,
                runnableVars, threadVars, listenerVars>>

FlavorOnly ==
    UNCHANGED <<debug_assertions, rootVars, trustedVars, cellVars, castVars, loopVars,
                runnableVars, threadVars, listenerVars>>

CellOnly ==
    UNCHANGED <<debug_assertions, rootVars, trustedVars, flavorVars, castVars, loopVars,
                runnableVars, threadVars, listenerVars>>

CastOnly ==
    UNCHANGED <<debug_assertions, rootVars, trustedVars, flavorVars, cellVars, loopVars,
                runnableVars, threadVars, listenerVars>>

LoopOnly ==
    UNCHANGED <<debug_assertions, rootVars, trustedVars, flavorVars, cellVars, castVars,
                runnableVars, threadVars, listenerVars>>

RunnableOnly ==
    UNCHANGED <<debug_assertions, rootVars, trustedVars, flavorVars, cellVars, castVars,
                loopVars, threadVars, listenerVars>>

ThreadOnly ==
    UNCHANGED <<debug_assertions, rootVars, trustedVars, flavorVars, cellVars, castVars,
                loopRest, runnableVars, listenerVars>>

ListenersOnly ==
    UNCHANGED <<debug_assertions, rootVars, trustedVars, flavorVars, cellVars, castVars,
                loopVars, runnableVars, threadVars>>

RootSlots == 1..MaxRoots

(***************************************************************************)
(* debug_assert!(cond): checked only when the build has debug assertions.  *)
(***************************************************************************)
debug_assert(cond) == debug_assertions => cond

(***************************************************************************)
(* js.rs: Root.  A Root is a wrapped pointer; it is not Send, so the roots *)
(* modelled are those on the stack of the owning script thread.            *)
(***************************************************************************)
\* Root::new: debug_assert!(thread_state::get().is_script()), then wrap the pointer.
Root_new_ok(t) == debug_assert(is_script(t))

\* A Root whose destruction released its referent.
Root_drop_heap_frees(hp, ptr) == hp \ {ptr}

\* Root has no Drop impl: the end of its scope releases nothing.
Root_drop_heap(hp, ptr) == hp

\* Root::new_box: Box::into_raw(value), then Root::new.
Root_new_box(o) ==
    /\ o \notin heap
    /\ Root_new_ok(OwnerThread)
    /\ heap' = heap \cup {o}
    /\ \E r \in RootSlots :
         /\ roots[r] = NoPtr
         /\ roots' = [roots EXCEPT ![r] = o]
    /\ UNCHANGED last_root_dropped
    /\ RootsOnly

\* Root::from_ref on an object reached through a live Root.
Root_from_ref(r0) ==
    /\ roots[r0] # NoPtr
    /\ Root_new_ok(OwnerThread)
    /\ \E r \in RootSlots :
         /\ roots[r] = NoPtr
         /\ roots' = [roots EXCEPT ![r] = roots[r0]]
    /\ UNCHANGED <<heap, last_root_dropped>>
    /\ RootsOnly

\* Root::new on the pointer of an allocated object (read from a JS<T> field).
Root_new(o) ==
    /\ o \in heap
    /\ Root_new_ok(OwnerThread)
    /\ \E r \in RootSlots :
         /\ roots[r] = NoPtr
         /\ roots' = [roots EXCEPT ![r] = o]
    /\ UNCHANGED <<heap, last_root_dropped>>
    /\ RootsOnly

\* The scope of a Root ends.
Root_drop(r) ==
    /\ roots[r] # NoPtr
    /\ roots' = [roots EXCEPT ![r] = NoPtr]
    /\ heap' = Root_drop_heap(heap, roots[r])
    /\ last_root_dropped' = roots[r]
    /\ RootsOnly

InitRoots ==
    /\ heap = {}
    /\ roots = [r \in RootSlots |-> NoPtr]
    /\ last_root_dropped = NoPtr

\* The objects exist and no Root is on the stack.
IdleRoots ==
    /\ heap = Objects
    /\ roots = [r \in RootSlots |-> NoPtr]
    /\ last_root_dropped = NoPtr

(***************************************************************************)
(* Messages of the script channel.                                         *)
(***************************************************************************)
RefcountCleanup(addr) == [kind |-> "RefcountCleanup", addr |-> addr]

RunnableMsg == [kind |-> "RunnableMsg", addr |-> NoPtr]

(***************************************************************************)
(* refcounted.rs.  A Trusted<T> holds ptr and a clone of the script        *)
(* channel; handles of one object are interchangeable, so the model keeps  *)
(* how many were made and how many were dropped.                           *)
(***************************************************************************)
\* The number of outstanding Trusted handles of an object.
LiveCount(o) == created[o] - dropped[o]

\* The count LiveDOMReferences holds for an object (0 when it has no entry).
RegistryCount(o) == IF o \in DOMAIN live_references THEN live_references[o] ELSE 0

\* Trusted::new stores the pointer and a clone of the channel; it touches no table.
Trusted_new_table(table, o) == table

\* Clone for Trusted copies ptr and channel; it touches no table.
Trusted_clone_table(table, o) == table

\* Drop for Trusted has an empty body: the table is left alone ...
Trusted_drop_table(table, o) == table

\* ... and nothing is sent on the stored script channel.
Trusted_drop_chan(chan, o, remaining) == chan

HandlesLeft == LiveCount("o1") + LiveCount("o2") < MaxHandles

\* Trusted::new(&T, chan), on the thread that holds the reference.
Trusted_new(o) ==
    /\ OwnerThread \notin panicked
    /\ o \in heap
    /\ HandlesLeft
    /\ created[o] < MaxCreated
    /\ live_references' = Trusted_new_table(live_references, o)
    /\ created' = [created EXCEPT ![o] = @ + 1]
    /\ UNCHANGED <<script_port, dropped, zeroed, panicked, root_call>>
    /\ TrustedOnly

\* Thread t clones a handle of o it holds.
Trusted_clone(t, o) ==
    /\ t \notin panicked
    /\ LiveCount(o) > 0
    /\ HandlesLeft
    /\ created[o] < MaxCreated
    /\ live_references' = Trusted_clone_table(live_references, o)
    /\ created' = [created EXCEPT ![o] = @ + 1]
    /\ UNCHANGED <<script_port, dropped, zeroed, panicked, root_call>>
    /\ TrustedOnly

\* Thread t drops a handle of o it holds.
Trusted_drop(t, o) ==
    /\ LiveCount(o) > 0
    /\ LET remaining == LiveCount(o) - 1
       IN /\ dropped' = [dropped EXCEPT ![o] = @ + 1]
          /\ zeroed' = IF remaining = 0 THEN zeroed \cup {o} ELSE zeroed
          /\ live_references' = Trusted_drop_table(live_references, o)
          /\ script_port' = Trusted_drop_chan(script_port, o, remaining)
    /\ UNCHANGED <<created, panicked, root_call>>
    /\ TrustedOnly

\* Trusted::root: Root::new(NonZero::new(self.ptr as *const T)).
Trusted_root_ok(t) == Root_new_ok(t)

NoRootCall == [thread |-> "none", ptr |-> NoPtr, outcome |-> "none"]

\* Thread t calls root() on a handle of o it holds.
Trusted_root(t, o) ==
    /\ t \notin panicked
    /\ LiveCount(o) > 0
    /\ IF Trusted_root_ok(t)
       THEN /\ root_call' = [thread |-> t, ptr |-> o, outcome |-> "returned"]
            /\ UNCHANGED panicked
       ELSE /\ root_call' = [thread |-> t, ptr |-> NoPtr, outcome |-> "assertion failure"]
            /\ panicked' = panicked \cup {t}
    /\ UNCHANGED <<live_references, script_port, created, dropped, zeroed>>
    /\ TrustedOnly

(***************************************************************************)
(* script_thread.rs: the internal script channel                           *)
(***************************************************************************)
\* LiveDOMReferences::cleanup: remove the entry if its count is still zero.
LiveDOMReferences_cleanup(table, addr) ==
    IF addr \in DOMAIN table /\ table[addr] = 0
    THEN [o \in DOMAIN table \ {addr} |-> table[o]]
    ELSE table

\* ScriptChan::send of a runnable by any thread.
ScriptChan_send(t, msg) ==
    /\ t \notin panicked
    /\ Len(script_port) < MaxQueue
    /\ script_port' = Append(script_port, msg)
    /\ UNCHANGED <<live_references, created, dropped, zeroed, panicked, root_call>>
    /\ TrustedOnly

handle_msg_from_script ==
    /\ OwnerThread \notin panicked
    /\ script_port # <<>>
    /\ LET msg == Head(script_port)
       IN live_references' =
              IF msg.kind = "RefcountCleanup"
              THEN LiveDOMReferences_cleanup(live_references, msg.addr)
              ELSE live_references
    /\ script_port' = Tail(script_port)
    /\ UNCHANGED <<created, dropped, zeroed, panicked, root_call>>
    /\ TrustedOnly

InitTrusted ==
    /\ live_references = [o \in {} |-> 0]
    /\ script_port = <<>>
    /\ created = [o \in Objects |-> 0]
    /\ dropped = [o \in Objects |-> 0]
    /\ zeroed = {}
    /\ panicked = {}
    /\ root_call = NoRootCall

(***************************************************************************)
(* js.rs: the thread-state assertions of the reference types.  X_ok(t) is  *)
(* TRUE when a call of X on thread t passes every debug_assert! on its     *)
(* path and returns, FALSE when it reaches an assertion failure.           *)
(***************************************************************************)
Root_deref_ok(t) == debug_assert(is_script(t))

Root_r_ok(t) == Root_deref_ok(t)

Root_from_ref_ok(t) == Root_new_ok(t)

Root_new_box_ok(t) == Root_new_ok(t)

\* Root is declared with a derived Clone: a copy of the pointer, no assertion.
Root_clone_ok(t) == TRUE

JS_to_layout_ok(t) == debug_assert(is_layout(t))

JS_from_rooted_ok(t) == debug_assert(is_script(t)) /\ Root_deref_ok(t)

JS_from_ref_ok(t) == debug_assert(is_script(t))

JS_deref_ok(t) == debug_assert(is_script(t))

\* A clone of JS<T> that asserts nothing.
JS_clone_unchecked(t) == TRUE

JS_clone_ok(t) == debug_assert(is_script(t))

LayoutJS_unsafe_get_ok(t) == debug_assert(is_layout(t))

LayoutJS_upcast_ok(t) == debug_assert(is_layout(t))

LayoutJS_downcast_ok(t) == debug_assert(is_layout(t)) /\ LayoutJS_unsafe_get_ok(t)

LayoutJS_clone_ok(t) == debug_assert(is_layout(t))

LayoutJS_from_trusted_node_address_ok(t) == debug_assert(is_layout(t))

MutHeap_new_ok(t) == debug_assert(is_script(t)) /\ JS_from_ref_ok(t)

MutHeap_set_ok(t) == debug_assert(is_script(t)) /\ JS_from_ref_ok(t)

MutHeap_get_ok(t) == debug_assert(is_script(t)) /\ Root_from_ref_ok(t)

MutNullableHeap_new_ok(t) == debug_assert(is_script(t))

MutNullableHeap_get_ok(t) == debug_assert(is_script(t))

MutNullableHeap_set_ok(t) == debug_assert(is_script(t))

MutNullableHeap_or_init_ok(t) == debug_assert(is_script(t)) /\ MutNullableHeap_get_ok(t)

MutNullableHeap_default_ok(t) == debug_assert(is_script(t))

MutNullableHeap_get_inner_as_layout_ok(t) == debug_assert(is_layout(t))

ScriptOps == {"JS::from_rooted", "JS::from_ref", "JS::deref", "JS::clone",
              "Root::new", "Root::new_box", "Root::from_ref", "Root::deref", "Root::r",
              "Root::clone",
              "MutHeap::new", "MutHeap::set", "MutHeap::get",
              "MutNullableHeap::new", "MutNullableHeap::get", "MutNullableHeap::set",
              "MutNullableHeap::or_init", "MutNullableHeap::default"}

LayoutOps == {"JS::to_layout", "LayoutJS::upcast", "LayoutJS::downcast", "LayoutJS::clone",
              "LayoutJS::from_trusted_node_address", "LayoutJS::unsafe_get",
              "MutNullableHeap::get_inner_as_layout"}

Ops == ScriptOps \cup LayoutOps

op_ok(op, t) ==
    CASE op = "JS::from_rooted" -> JS_from_rooted_ok(t)
      [] op = "JS::from_ref" -> JS_from_ref_ok(t)
      [] op = "JS::deref" -> JS_deref_ok(t)
      [] op = "JS::clone" -> JS_clone_ok(t)
      [] op = "Root::new" -> Root_new_ok(t)
      [] op = "Root::new_box" -> Root_new_box_ok(t)
      [] op = "Root::from_ref" -> Root_from_ref_ok(t)
      [] op = "Root::deref" -> Root_deref_ok(t)
      [] op = "Root::r" -> Root_r_ok(t)
      [] op = "Root::clone" -> Root_clone_ok(t)
      [] op = "MutHeap::new" -> MutHeap_new_ok(t)
      [] op = "MutHeap::set" -> MutHeap_set_ok(t)
      [] op = "MutHeap::get" -> MutHeap_get_ok(t)
      [] op = "MutNullableHeap::new" -> MutNullableHeap_new_ok(t)
      [] op = "MutNullableHeap::get" -> MutNullableHeap_get_ok(t)
      [] op = "MutNullableHeap::set" -> MutNullableHeap_set_ok(t)
      [] op = "MutNullableHeap::or_init" -> MutNullableHeap_or_init_ok(t)
      [] op = "MutNullableHeap::default" -> MutNullableHeap_default_ok(t)
      [] op = "JS::to_layout" -> JS_to_layout_ok(t)
      [] op = "LayoutJS::upcast" -> LayoutJS_upcast_ok(t)
      [] op = "LayoutJS::downcast" -> LayoutJS_downcast_ok(t)
      [] op = "LayoutJS::clone" -> LayoutJS_clone_ok(t)
      [] op = "LayoutJS::from_trusted_node_address" -> LayoutJS_from_trusted_node_address_ok(t)
      [] op = "LayoutJS::unsafe_get" -> LayoutJS_unsafe_get_ok(t)
      [] op = "MutNullableHeap::get_inner_as_layout" -> MutNullableHeap_get_inner_as_layout_ok(t)

NoCall == [op |-> "none", thread |-> "none", outcome |-> "none"]

\* Thread t calls one operation of the reference types.
Call(t, op) ==
    /\ call' = [op |-> op, thread |-> t,
                outcome |-> IF op_ok(op, t) THEN "returned" ELSE "assertion failure"]
    /\ FlavorOnly

InitFlavor == call = NoCall

(***************************************************************************)
(* js.rs: MutNullableHeap<JS<T>>.  The cell holds Option<JS<T>>; NoPtr is  *)
(* None.  The initializer passed to or_init is not reentrant: it returns   *)
(* the Root of some object and does not touch the cell.                    *)
(***************************************************************************)
CellValues == Objects \cup {NoPtr}

\* MutNullableHeap::get: ptr::read(self.ptr.get()).map(|o| Root::from_ref(&*o)).
MutNullableHeap_get(c) == c

\* A set that leaves the cell alone when given None.
MutNullableHeap_set_ignores_none(c, val) == IF val = NoPtr THEN c ELSE val

\* MutNullableHeap::set: *self.ptr.get() = val.map(|p| JS::from_ref(p)).
MutNullableHeap_set(c, val) == val

\* An or_init that calls cb() whatever the cell holds.
or_init_always_invokes(c) == TRUE

\* or_init: does the match on self.get() take the None arm and call cb().
or_init_invokes_cb(c) == MutNullableHeap_get(c) = NoPtr

\* or_init: the cell after the call (the None arm stores cb()'s result by set).
or_init_cell(c, cbv) ==
    IF or_init_invokes_cb(c) THEN MutNullableHeap_set(c, cbv) ELSE c

\* or_init: the Root returned.
or_init_result(c, cbv) ==
    IF or_init_invokes_cb(c) THEN cbv ELSE MutNullableHeap_get(c)

NoCellCall == [op |-> "none", thread |-> "none", outcome |-> "none",
               before |-> NoPtr, invoked |-> FALSE, result |-> NoPtr]

CellAssertionFailure(op, t) ==
    /\ cell_call' = [op |-> op, thread |-> t, outcome |-> "assertion failure",
                     before |-> cell, invoked |-> FALSE, result |-> NoPtr]
    /\ UNCHANGED <<cell, cb_calls, or_init_returns, cell_last_set, mutheap, mutheap_last_set>>

or_init(t, cbv) ==
    /\ IF MutNullableHeap_or_init_ok(t)
       THEN /\ cell' = or_init_cell(cell, cbv)
            /\ cb_calls' = IF or_init_invokes_cb(cell) THEN cb_calls + 1 ELSE cb_calls
            /\ or_init_returns' = or_init_returns \cup {or_init_result(cell, cbv)}
            /\ cell_call' = [op |-> "or_init", thread |-> t, outcome |-> "returned",
                             before |-> cell, invoked |-> or_init_invokes_cb(cell),
                             result |-> or_init_result(cell, cbv)]
            \* the None arm gives cb()'s result to the cell by self.set
            /\ cell_last_set' = IF or_init_invokes_cb(cell) THEN cbv ELSE cell_last_set
            /\ UNCHANGED <<mutheap, mutheap_last_set>>
       ELSE CellAssertionFailure("or_init", t)
    /\ CellOnly

cell_set(t, val) ==
    /\ IF MutNullableHeap_set_ok(t)
       THEN /\ cell' = MutNullableHeap_set(cell, val)
            /\ cb_calls' = 0
            /\ or_init_returns' = {}
            /\ cell_call' = [op |-> "set", thread |-> t, outcome |-> "returned",
                             before |-> cell, invoked |-> FALSE, result |-> NoPtr]
            /\ cell_last_set' = val
            /\ UNCHANGED <<mutheap, mutheap_last_set>>
       ELSE CellAssertionFailure("set", t)
    /\ CellOnly

cell_get(t) ==
    /\ IF MutNullableHeap_get_ok(t)
       THEN /\ cell_call' = [op |-> "get", thread |-> t, outcome |-> "returned",
                             before |-> cell, invoked |-> FALSE,
                             result |-> MutNullableHeap_get(cell)]
            /\ UNCHANGED <<cell, cb_calls, or_init_returns, cell_last_set,
                           mutheap, mutheap_last_set>>
       ELSE CellAssertionFailure("get", t)
    /\ CellOnly

\* MutHeap::get: Root::from_ref(&*ptr::read(self.val.get())).
MutHeap_get(c) == c

\* MutHeap::set: *self.val.get() = JS::from_ref(val).
MutHeap_set(c, val) == val

mutheap_set(t, val) ==
    /\ IF MutHeap_set_ok(t)
       THEN /\ mutheap' = MutHeap_set(mutheap, val)
            /\ mutheap_last_set' = val
            /\ cell_call' = [op |-> "MutHeap::set", thread |-> t, outcome |-> "returned",
                             before |-> mutheap, invoked |-> FALSE, result |-> NoPtr]
            /\ UNCHANGED <<cell, cb_calls, or_init_returns, cell_last_set>>
       ELSE CellAssertionFailure("MutHeap::set", t)
    /\ CellOnly

mutheap_get(t) ==
    /\ IF MutHeap_get_ok(t)
       THEN /\ cell_call' = [op |-> "MutHeap::get", thread |-> t, outcome |-> "returned",
                             before |-> mutheap, invoked |-> FALSE,
                             result |-> MutHeap_get(mutheap)]
            /\ UNCHANGED <<cell, cb_calls, or_init_returns, cell_last_set,
                           mutheap, mutheap_last_set>>
       ELSE CellAssertionFailure("MutHeap::get", t)
    /\ CellOnly

\* MutNullableHeap::new(initial) / Default::default().
InitCell ==
    /\ cell \in CellValues
    /\ cb_calls = 0
    /\ or_init_returns = {}
    /\ cell_call = NoCellCall
    /\ cell_last_set = cell
    /\ mutheap \in Objects
    /\ mutheap_last_set = mutheap

IdleCell ==
    /\ cell = NoPtr
    /\ cb_calls = 0
    /\ or_init_returns = {}
    /\ cell_call = NoCellCall
    /\ cell_last_set = NoPtr
    /\ mutheap = "o1"
    /\ mutheap_last_set = "o1"

(***************************************************************************)
(* inheritance.rs, typed.rs: the type hierarchy.  A type id is the path of *)
(* enum variants of a TopTypeId value, outermost first; a pattern is such  *)
(* a path that may end in the wildcard "_".                                *)
(***************************************************************************)
\* Every TopTypeId value an object can carry (Abstract and Alone aside).
TypeIds == {
    <<"DOMPointReadOnly", "DOMPointReadOnly">>, <<"DOMPointReadOnly", "DOMPoint">>,
    <<"DOMRectReadOnly", "DOMRectReadOnly">>, <<"DOMRectReadOnly", "DOMRect">>,
    <<"Event", "Event">>, <<"Event", "CloseEvent">>, <<"Event", "CustomEvent">>,
    <<"Event", "ErrorEvent">>, <<"Event", "MessageEvent">>, <<"Event", "ProgressEvent">>,
    <<"Event", "UIEvent", "UIEvent">>, <<"Event", "UIEvent", "FocusEvent">>,
    <<"Event", "UIEvent", "KeyboardEvent">>, <<"Event", "UIEvent", "MouseEvent">>,
    <<"Event", "UIEvent", "TouchEvent">>, <<"EventTarget", "EventSource">>,
    <<"EventTarget", "Node", "CharacterData", "Comment">>,
    <<"EventTarget", "Node", "CharacterData", "ProcessingInstruction">>,
    <<"EventTarget", "Node", "CharacterData", "Text">>, <<"EventTarget", "Node", "Document">>,
    <<"EventTarget", "Node", "DocumentFragment">>, <<"EventTarget", "Node", "DocumentType">>,
    <<"EventTarget", "Node", "Element", "Element">>,
    <<"EventTarget", "Node", "Element", "HTMLElement", "HTMLElement">>,
    <<"EventTarget", "Node", "Element", "HTMLElement", "HTMLAnchorElement">>,
    <<"EventTarget", "Node", "Element", "HTMLElement", "HTMLAppletElement">>,
    <<"EventTarget", "Node", "Element", "HTMLElement", "HTMLAreaElement">>,
    <<"EventTarget", "Node", "Element", "HTMLElement", "HTMLBRElement">>,
    <<"EventTarget", "Node", "Element", "HTMLElement", "HTMLBaseElement">>,
    <<"EventTarget", "Node", "Element", "HTMLElement", "HTMLBodyElement">>,
    <<"EventTarget", "Node", "Element", "HTMLElement", "HTMLButtonElement">>,
    <<"EventTarget", "Node", "Element", "HTMLElement", "HTMLCanvasElement">>,
    <<"EventTarget", "Node", "Element", "HTMLElement", "HTMLDListElement">>,
    <<"EventTarget", "Node", "Element", "HTMLElement", "HTMLDataElement">>,
    <<"EventTarget", "Node", "Element", "HTMLElement", "HTMLDataListElement">>,
    <<"EventTarget", "Node", "Element", "HTMLElement", "HTMLDetailsElement">>,
    <<"EventTarget", "Node", "Element", "HTMLElement", "HTMLDialogElement">>,
    <<"EventTarget", "Node", "Element", "HTMLElement", "HTMLDirectoryElement">>,
    <<"EventTarget", "Node", "Element", "HTMLElement", "HTMLDivElement">>,
    <<"EventTarget", "Node", "Element", "HTMLElement", "HTMLEmbedElement">>,
    <<"EventTarget", "Node", "Element", "HTMLElement", "HTMLFieldSetElement">>,
    <<"EventTarget", "Node", "Element", "HTMLElement", "HTMLFontElement">>,
    <<"EventTarget", "Node", "Element", "HTMLElement", "HTMLFormElement">>,
    <<"EventTarget", "Node", "Element", "HTMLElement", "HTMLFrameElement">>,
    <<"EventTarget", "Node", "Element", "HTMLElement", "HTMLFrameSetElement">>,
    <<"EventTarget", "Node", "Element", "HTMLElement", "HTMLHRElement">>,
    <<"EventTarget", "Node", "Element", "HTMLElement", "HTMLHeadElement">>,
    <<"EventTarget", "Node", "Element", "HTMLElement", "HTMLHeadingElement">>,
    <<"EventTarget", "Node", "Element", "HTMLElement", "HTMLHtmlElement">>,
    <<"EventTarget", "Node", "Element", "HTMLElement", "HTMLImageElement">>,
    <<"EventTarget", "Node", "Element", "HTMLElement", "HTMLInputElement">>,
    <<"EventTarget", "Node", "Element", "HTMLElement", "HTMLLIElement">>,
    <<"EventTarget", "Node", "Element", "HTMLElement", "HTMLLabelElement">>,
    <<"EventTarget", "Node", "Element", "HTMLElement", "HTMLLegendElement">>,
    <<"EventTarget", "Node", "Element", "HTMLElement", "HTMLLinkElement">>,
    <<"EventTarget", "Node", "Element", "HTMLElement", "HTMLMapElement">>,
    <<"EventTarget", "Node", "Element", "HTMLElement", "HTMLMediaElement", "HTMLAudioElement">>,
    <<"EventTarget", "Node", "Element", "HTMLElement", "HTMLMediaElement", "HTMLVideoElement">>,
    <<"EventTarget", "Node", "Element", "HTMLElement", "HTMLMetaElement">>,
    <<"EventTarget", "Node", "Element", "HTMLElement", "HTMLMeterElement">>,
    <<"EventTarget", "Node", "Element", "HTMLElement", "HTMLModElement">>,
    <<"EventTarget", "Node", "Element", "HTMLElement", "HTMLOListElement">>,
    <<"EventTarget", "Node", "Element", "HTMLElement", "HTMLObjectElement">>,
    <<"EventTarget", "Node", "Element", "HTMLElement", "HTMLOptGroupElement">>,
    <<"EventTarget", "Node", "Element", "HTMLElement", "HTMLOptionElement">>,
    <<"EventTarget", "Node", "Element", "HTMLElement", "HTMLOutputElement">>,
    <<"EventTarget", "Node", "Element", "HTMLElement", "HTMLParagraphElement">>,
    <<"EventTarget", "Node", "Element", "HTMLElement", "HTMLParamElement">>,
    <<"EventTarget", "Node", "Element", "HTMLElement", "HTMLPreElement">>,
    <<"EventTarget", "Node", "Element", "HTMLElement", "HTMLProgressElement">>,
    <<"EventTarget", "Node", "Element", "HTMLElement", "HTMLQuoteElement">>,
    <<"EventTarget", "Node", "Element", "HTMLElement", "HTMLSelectElement">>,
    <<"EventTarget", "Node", "Element", "HTMLElement", "HTMLSourceElement">>,
    <<"EventTarget", "Node", "Element", "HTMLElement", "HTMLSpanElement">>,
    <<"EventTarget", "Node", "Element", "HTMLElement", "HTMLStyleElement">>,
    <<"EventTarget", "Node", "Element", "HTMLElement", "HTMLTableCaptionElement">>,
    <<"EventTarget", "Node", "Element", "HTMLElement", "HTMLTableCellElement", "HTMLTableDataCellElement">>,
    <<"EventTarget", "Node", "Element", "HTMLElement", "HTMLTableCellElement", "HTMLTableHeaderCellElement">>,
    <<"EventTarget", "Node", "Element", "HTMLElement", "HTMLTableColElement">>,
    <<"EventTarget", "Node", "Element", "HTMLElement", "HTMLTableElement">>,
    <<"EventTarget", "Node", "Element", "HTMLElement", "HTMLTableRowElement">>,
    <<"EventTarget", "Node", "Element", "HTMLElement", "HTMLTableSectionElement">>,
    <<"EventTarget", "Node", "Element", "HTMLElement", "HTMLTemplateElement">>,
    <<"EventTarget", "Node", "Element", "HTMLElement", "HTMLTextAreaElement">>,
    <<"EventTarget", "Node", "Element", "HTMLElement", "HTMLTimeElement">>,
    <<"EventTarget", "Node", "Element", "HTMLElement", "HTMLTitleElement">>,
    <<"EventTarget", "Node", "Element", "HTMLElement", "HTMLTrackElement">>,
    <<"EventTarget", "Node", "Element", "HTMLElement", "HTMLUListElement">>,
    <<"EventTarget", "Node", "Element", "HTMLElement", "HTMLUnknownElement">>,
    <<"EventTarget", "Window">>, <<"HTMLCollection", "HTMLCollection">>,
    <<"HTMLCollection", "HTMLFormControlsCollection">>, <<"NodeList", "NodeList">>,
    <<"NodeList", "RadioNodeList">>}

\* The pattern of each interface's Typed::is_subtype (make_typed! and the
\* hand-written impls of EventTarget, DOMRectReadOnly and DOMPointReadOnly).
IsSubtypePatterns == [
    CharacterData |-> <<"EventTarget", "Node", "CharacterData", "_">>,
    CloseEvent |-> <<"Event", "CloseEvent">>,
    Comment |-> <<"EventTarget", "Node", "CharacterData", "Comment">>,
    CustomEvent |-> <<"Event", "CustomEvent">>,
    DOMPoint |-> <<"DOMPointReadOnly", "DOMPoint">>,
    DOMPointReadOnly |-> <<"DOMPointReadOnly", "_">>,
    DOMRect |-> <<"DOMRectReadOnly", "DOMRect">>,
    DOMRectReadOnly |-> <<"DOMRectReadOnly", "_">>,
    Document |-> <<"EventTarget", "Node", "Document">>,
    DocumentFragment |-> <<"EventTarget", "Node", "DocumentFragment">>,
    DocumentType |-> <<"EventTarget", "Node", "DocumentType">>,
    Element |-> <<"EventTarget", "Node", "Element", "_">>,
    ErrorEvent |-> <<"Event", "ErrorEvent">>, EventSource |-> <<"EventTarget", "EventSource">>,
    EventTarget |-> <<"EventTarget", "_">>,
    FocusEvent |-> <<"Event", "UIEvent", "FocusEvent">>,
    HTMLAnchorElement |-> <<"EventTarget", "Node", "Element", "HTMLElement", "HTMLAnchorElement">>,
    HTMLAppletElement |-> <<"EventTarget", "Node", "Element", "HTMLElement", "HTMLAppletElement">>,
    HTMLAreaElement |-> <<"EventTarget", "Node", "Element", "HTMLElement", "HTMLAreaElement">>,
    HTMLAudioElement |-> <<"EventTarget", "Node", "Element", "HTMLElement", "HTMLMediaElement", "HTMLAudioElement">>,
    HTMLBRElement |-> <<"EventTarget", "Node", "Element", "HTMLElement", "HTMLBRElement">>,
    HTMLBaseElement |-> <<"EventTarget", "Node", "Element", "HTMLElement", "HTMLBaseElement">>,
    HTMLBodyElement |-> <<"EventTarget", "Node", "Element", "HTMLElement", "HTMLBodyElement">>,
    HTMLButtonElement |-> <<"EventTarget", "Node", "Element", "HTMLElement", "HTMLButtonElement">>,
    HTMLCanvasElement |-> <<"EventTarget", "Node", "Element", "HTMLElement", "HTMLCanvasElement">>,
    HTMLDListElement |-> <<"EventTarget", "Node", "Element", "HTMLElement", "HTMLDListElement">>,
    HTMLDataElement |-> <<"EventTarget", "Node", "Element", "HTMLElement", "HTMLDataElement">>,
    HTMLDataListElement |-> <<"EventTarget", "Node", "Element", "HTMLElement", "HTMLDataListElement">>,
    HTMLDetailsElement |-> <<"EventTarget", "Node", "Element", "HTMLElement", "HTMLDetailsElement">>,
    HTMLDialogElement |-> <<"EventTarget", "Node", "Element", "HTMLElement", "HTMLDialogElement">>,
    HTMLDirectoryElement |-> <<"EventTarget", "Node", "Element", "HTMLElement", "HTMLDirectoryElement">>,
    HTMLDivElement |-> <<"EventTarget", "Node", "Element", "HTMLElement", "HTMLDivElement">>,
    HTMLElement |-> <<"EventTarget", "Node", "Element", "HTMLElement", "HTMLElement">>,
    HTMLEmbedElement |-> <<"EventTarget", "Node", "Element", "HTMLElement", "HTMLEmbedElement">>,
    HTMLFieldSetElement |-> <<"EventTarget", "Node", "Element", "HTMLElement", "HTMLFieldSetElement">>,
    HTMLFontElement |-> <<"EventTarget", "Node", "Element", "HTMLElement", "HTMLFontElement">>,
    HTMLFormControlsCollection |-> <<"HTMLCollection", "HTMLFormControlsCollection">>,
    HTMLFormElement |-> <<"EventTarget", "Node", "Element", "HTMLElement", "HTMLFormElement">>,
    HTMLFrameElement |-> <<"EventTarget", "Node", "Element", "HTMLElement", "HTMLFrameElement">>,
    HTMLFrameSetElement |-> <<"EventTarget", "Node", "Element", "HTMLElement", "HTMLFrameSetElement">>,
    HTMLHRElement |-> <<"EventTarget", "Node", "Element", "HTMLElement", "HTMLHRElement">>,
    HTMLHeadElement |-> <<"EventTarget", "Node", "Element", "HTMLElement", "HTMLHeadElement">>,
    HTMLHeadingElement |-> <<"EventTarget", "Node", "Element", "HTMLElement", "HTMLHeadingElement">>,
    HTMLHtmlElement |-> <<"EventTarget", "Node", "Element", "HTMLElement", "HTMLHtmlElement">>,
    HTMLImageElement |-> <<"EventTarget", "Node", "Element", "HTMLElement", "HTMLImageElement">>,
    HTMLInputElement |-> <<"EventTarget", "Node", "Element", "HTMLElement", "HTMLInputElement">>,
    HTMLLIElement |-> <<"EventTarget", "Node", "Element", "HTMLElement", "HTMLLIElement">>,
    HTMLLabelElement |-> <<"EventTarget", "Node", "Element", "HTMLElement", "HTMLLabelElement">>,
    HTMLLegendElement |-> <<"EventTarget", "Node", "Element", "HTMLElement", "HTMLLegendElement">>,
    HTMLLinkElement |-> <<"EventTarget", "Node", "Element", "HTMLElement", "HTMLLinkElement">>,
    HTMLMapElement |-> <<"EventTarget", "Node", "Element", "HTMLElement", "HTMLMapElement">>,
    HTMLMediaElement |-> <<"EventTarget", "Node", "Element", "HTMLElement", "HTMLMediaElement", "_">>,
    HTMLMetaElement |-> <<"EventTarget", "Node", "Element", "HTMLElement", "HTMLMetaElement">>,
    HTMLMeterElement |-> <<"EventTarget", "Node", "Element", "HTMLElement", "HTMLMeterElement">>,
    HTMLModElement |-> <<"EventTarget", "Node", "Element", "HTMLElement", "HTMLModElement">>,
    HTMLOListElement |-> <<"EventTarget", "Node", "Element", "HTMLElement", "HTMLOListElement">>,
    HTMLObjectElement |-> <<"EventTarget", "Node", "Element", "HTMLElement", "HTMLObjectElement">>,
    HTMLOptGroupElement |-> <<"EventTarget", "Node", "Element", "HTMLElement", "HTMLOptGroupElement">>,
    HTMLOptionElement |-> <<"EventTarget", "Node", "Element", "HTMLElement", "HTMLOptionElement">>,
    HTMLOutputElement |-> <<"EventTarget", "Node", "Element", "HTMLElement", "HTMLOutputElement">>,
    HTMLParagraphElement |-> <<"EventTarget", "Node", "Element", "HTMLElement", "HTMLParagraphElement">>,
    HTMLParamElement |-> <<"EventTarget", "Node", "Element", "HTMLElement", "HTMLParamElement">>,
    HTMLPreElement |-> <<"EventTarget", "Node", "Element", "HTMLElement", "HTMLPreElement">>,
    HTMLProgressElement |-> <<"EventTarget", "Node", "Element", "HTMLElement", "HTMLProgressElement">>,
    HTMLQuoteElement |-> <<"EventTarget", "Node", "Element", "HTMLElement", "HTMLQuoteElement">>,
    HTMLSelectElement |-> <<"EventTarget", "Node", "Element", "HTMLElement", "HTMLSelectElement">>,
    HTMLSourceElement |-> <<"EventTarget", "Node", "Element", "HTMLElement", "HTMLSourceElement">>,
    HTMLSpanElement |-> <<"EventTarget", "Node", "Element", "HTMLElement", "HTMLSpanElement">>,
    HTMLStyleElement |-> <<"EventTarget", "Node", "Element", "HTMLElement", "HTMLStyleElement">>,
    HTMLTableCaptionElement |-> <<"EventTarget", "Node", "Element", "HTMLElement", "HTMLTableCaptionElement">>,
    HTMLTableCellElement |-> <<"EventTarget", "Node", "Element", "HTMLElement", "HTMLTableCellElement", "_">>,
    HTMLTableColElement |-> <<"EventTarget", "Node", "Element", "HTMLElement", "HTMLTableColElement">>,
    HTMLTableDataCellElement |-> <<"EventTarget", "Node", "Element", "HTMLElement", "HTMLTableCellElement", "HTMLTableDataCellElement">>,
    HTMLTableElement |-> <<"EventTarget", "Node", "Element", "HTMLElement", "HTMLTableElement">>,
    HTMLTableHeaderCellElement |-> <<"EventTarget", "Node", "Element", "HTMLElement", "HTMLTableCellElement", "HTMLTableHeaderCellElement">>,
    HTMLTableRowElement |-> <<"EventTarget", "Node", "Element", "HTMLElement", "HTMLTableRowElement">>,
    HTMLTableSectionElement |-> <<"EventTarget", "Node", "Element", "HTMLElement", "HTMLTableSectionElement">>,
    HTMLTemplateElement |-> <<"EventTarget", "Node", "Element", "HTMLElement", "HTMLTemplateElement">>,
    HTMLTextAreaElement |-> <<"EventTarget", "Node", "Element", "HTMLElement", "HTMLTextAreaElement">>,
    HTMLTimeElement |-> <<"EventTarget", "Node", "Element", "HTMLElement", "HTMLTimeElement">>,
    HTMLTitleElement |-> <<"EventTarget", "Node", "Element", "HTMLElement", "HTMLTitleElement">>,
    HTMLTrackElement |-> <<"EventTarget", "Node", "Element", "HTMLElement", "HTMLTrackElement">>,
    HTMLUListElement |-> <<"EventTarget", "Node", "Element", "HTMLElement", "HTMLUListElement">>,
    HTMLUnknownElement |-> <<"EventTarget", "Node", "Element", "HTMLElement", "HTMLUnknownElement">>,
    HTMLVideoElement |-> <<"EventTarget", "Node", "Element", "HTMLElement", "HTMLMediaElement", "HTMLVideoElement">>,
    KeyboardEvent |-> <<"Event", "UIEvent", "KeyboardEvent">>,
    MessageEvent |-> <<"Event", "MessageEvent">>,
    MouseEvent |-> <<"Event", "UIEvent", "MouseEvent">>,
    Node |-> <<"EventTarget", "Node", "_">>,
    ProcessingInstruction |-> <<"EventTarget", "Node", "CharacterData", "ProcessingInstruction">>,
    ProgressEvent |-> <<"Event", "ProgressEvent">>,
    RadioNodeList |-> <<"NodeList", "RadioNodeList">>,
    Text |-> <<"EventTarget", "Node", "CharacterData", "Text">>,
    TouchEvent |-> <<"Event", "UIEvent", "TouchEvent">>,
    UIEvent |-> <<"Event", "UIEvent", "_">>, Window |-> <<"EventTarget", "Window">>]

\* impl DerivedFrom<U> for T {}: T |-> the set of U.
DerivedFromDecl == [
    CharacterData |-> {"EventTarget", "Node", "CharacterData"}, CloseEvent |-> {"Event"},
    Comment |-> {"EventTarget", "Node", "CharacterData"}, CustomEvent |-> {"Event"},
    DOMPoint |-> {"DOMPointReadOnly"}, DOMPointReadOnly |-> {"DOMPointReadOnly"},
    DOMRect |-> {"DOMRectReadOnly"}, DOMRectReadOnly |-> {"DOMRectReadOnly"},
    Document |-> {"EventTarget", "Node"}, DocumentFragment |-> {"EventTarget", "Node"},
    DocumentType |-> {"EventTarget", "Node"}, Element |-> {"EventTarget", "Node", "Element"},
    ErrorEvent |-> {"Event"}, Event |-> {"Event"}, EventSource |-> {"EventTarget"},
    EventTarget |-> {"EventTarget"}, FocusEvent |-> {"Event", "UIEvent"},
    HTMLAnchorElement |-> {"EventTarget", "Node", "Element", "HTMLElement"},
    HTMLAppletElement |-> {"EventTarget", "Node", "Element", "HTMLElement"},
    HTMLAreaElement |-> {"EventTarget", "Node", "Element", "HTMLElement"},
    HTMLAudioElement |-> {"EventTarget", "Node", "Element", "HTMLElement", "HTMLMediaElement"},
    HTMLBRElement |-> {"EventTarget", "Node", "Element", "HTMLElement"},
    HTMLBaseElement |-> {"EventTarget", "Node", "Element", "HTMLElement"},
    HTMLBodyElement |-> {"EventTarget", "Node", "Element", "HTMLElement"},
    HTMLButtonElement |-> {"EventTarget", "Node", "Element", "HTMLElement"},
    HTMLCanvasElement |-> {"EventTarget", "Node", "Element", "HTMLElement"},
    HTMLCollection |-> {"HTMLCollection"},
    HTMLDListElement |-> {"EventTarget", "Node", "Element", "HTMLElement"},
    HTMLDataElement |-> {"EventTarget", "Node", "Element", "HTMLElement"},
    HTMLDataListElement |-> {"EventTarget", "Node", "Element", "HTMLElement"},
    HTMLDetailsElement |-> {"EventTarget", "Node", "Element", "HTMLElement"},
    HTMLDialogElement |-> {"EventTarget", "Node", "Element", "HTMLElement"},
    HTMLDirectoryElement |-> {"EventTarget", "Node", "Element", "HTMLElement"},
    HTMLDivElement |-> {"EventTarget", "Node", "Element", "HTMLElement"},
    HTMLElement |-> {"EventTarget", "Node", "Element", "HTMLElement"},
    HTMLEmbedElement |-> {"EventTarget", "Node", "Element", "HTMLElement"},
    HTMLFieldSetElement |-> {"EventTarget", "Node", "Element", "HTMLElement"},
    HTMLFontElement |-> {"EventTarget", "Node", "Element", "HTMLElement"},
    HTMLFormControlsCollection |-> {"HTMLCollection"},
    HTMLFormElement |-> {"EventTarget", "Node", "Element", "HTMLElement"},
    HTMLFrameElement |-> {"EventTarget", "Node", "Element", "HTMLElement"},
    HTMLFrameSetElement |-> {"EventTarget", "Node", "Element", "HTMLElement"},
    HTMLHRElement |-> {"EventTarget", "Node", "Element", "HTMLElement"},
    HTMLHeadElement |-> {"EventTarget", "Node", "Element", "HTMLElement"},
    HTMLHeadingElement |-> {"EventTarget", "Node", "Element", "HTMLElement"},
    HTMLHtmlElement |-> {"EventTarget", "Node", "Element", "HTMLElement"},
    HTMLImageElement |-> {"EventTarget", "Node", "Element", "HTMLElement"},
    HTMLInputElement |-> {"EventTarget", "Node", "Element", "HTMLElement"},
    HTMLLIElement |-> {"EventTarget", "Node", "Element", "HTMLElement"},
    HTMLLabelElement |-> {"EventTarget", "Node", "Element", "HTMLElement"},
    HTMLLegendElement |-> {"EventTarget", "Node", "Element", "HTMLElement"},
    HTMLLinkElement |-> {"EventTarget", "Node", "Element", "HTMLElement"},
    HTMLMapElement |-> {"EventTarget", "Node", "Element", "HTMLElement"},
    HTMLMediaElement |-> {"EventTarget", "Node", "Element", "HTMLElement", "HTMLMediaElement"},
    HTMLMetaElement |-> {"EventTarget", "Node", "Element", "HTMLElement"},
    HTMLMeterElement |-> {"EventTarget", "Node", "Element", "HTMLElement"},
    HTMLModElement |-> {"EventTarget", "Node", "Element", "HTMLElement"},
    HTMLOListElement |-> {"EventTarget", "Node", "Element", "HTMLElement"},
    HTMLObjectElement |-> {"EventTarget", "Node", "Element", "HTMLElement"},
    HTMLOptGroupElement |-> {"EventTarget", "Node", "Element", "HTMLElement"},
    HTMLOptionElement |-> {"EventTarget", "Node", "Element", "HTMLElement"},
    HTMLOutputElement |-> {"EventTarget", "Node", "Element", "HTMLElement"},
    HTMLParagraphElement |-> {"EventTarget", "Node", "Element", "HTMLElement"},
    HTMLParamElement |-> {"EventTarget", "Node", "Element", "HTMLElement"},
    HTMLPreElement |-> {"EventTarget", "Node", "Element", "HTMLElement"},
    HTMLProgressElement |-> {"EventTarget", "Node", "Element", "HTMLElement"},
    HTMLQuoteElement |-> {"EventTarget", "Node", "Element", "HTMLElement"},
    HTMLSelectElement |-> {"EventTarget", "Node", "Element", "HTMLElement"},
    HTMLSourceElement |-> {"EventTarget", "Node", "Element", "HTMLElement"},
    HTMLSpanElement |-> {"EventTarget", "Node", "Element", "HTMLElement"},
    HTMLStyleElement |-> {"EventTarget", "Node", "Element", "HTMLElement"},
    HTMLTableCaptionElement |-> {"EventTarget", "Node", "Element", "HTMLElement"},
    HTMLTableCellElement |-> {"EventTarget", "Node", "Element", "HTMLElement", "HTMLTableCellElement"},
    HTMLTableColElement |-> {"EventTarget", "Node", "Element", "HTMLElement"},
    HTMLTableDataCellElement |-> {"EventTarget", "Node", "Element", "HTMLElement", "HTMLTableCellElement"},
    HTMLTableElement |-> {"EventTarget", "Node", "Element", "HTMLElement"},
    HTMLTableHeaderCellElement |-> {"EventTarget", "Node", "Element", "HTMLElement", "HTMLTableCellElement"},
    HTMLTableRowElement |-> {"EventTarget", "Node", "Element", "HTMLElement"},
    HTMLTableSectionElement |-> {"EventTarget", "Node", "Element", "HTMLElement"},
    HTMLTemplateElement |-> {"EventTarget", "Node", "Element", "HTMLElement"},
    HTMLTextAreaElement |-> {"EventTarget", "Node", "Element", "HTMLElement"},
    HTMLTimeElement |-> {"EventTarget", "Node", "Element", "HTMLElement"},
    HTMLTitleElement |-> {"EventTarget", "Node", "Element", "HTMLElement"},
    HTMLTrackElement |-> {"EventTarget", "Node", "Element", "HTMLElement"},
    HTMLUListElement |-> {"EventTarget", "Node", "Element", "HTMLElement"},
    HTMLUnknownElement |-> {"EventTarget", "Node", "Element", "HTMLElement"},
    HTMLVideoElement |-> {"EventTarget", "Node", "Element", "HTMLElement", "HTMLMediaElement"},
    KeyboardEvent |-> {"Event", "UIEvent"}, MessageEvent |-> {"Event"},
    MouseEvent |-> {"Event", "UIEvent"}, Node |-> {"EventTarget", "Node"},
    NodeList |-> {"NodeList"},
    ProcessingInstruction |-> {"EventTarget", "Node", "CharacterData"},
    ProgressEvent |-> {"Event"}, RadioNodeList |-> {"NodeList"},
    Text |-> {"EventTarget", "Node", "CharacterData"}, TouchEvent |-> {"Event", "UIEvent"},
    UIEvent |-> {"Event", "UIEvent"}, Window |-> {"EventTarget"}]

Interfaces == DOMAIN DerivedFromDecl

\* The interfaces whose Typed impl is part of the modelled sources.
TypedInterfaces == DOMAIN IsSubtypePatterns

\* T: DerivedFrom<U>.
DerivedFrom(T, U) == U \in DerivedFromDecl[T]

\* The interface a type id denotes: its innermost variant.
InterfaceOf(ty) == ty[Len(ty)]

\* match ty { $pattern => true, _ => false }.
is_subtype(U, ty) ==
    LET pat == IsSubtypePatterns[U]
        n == Len(pat)
    IN IF pat[n] = "_"
       THEN Len(ty) >= n /\ SubSeq(ty, 1, n - 1) = SubSeq(pat, 1, n - 1)
       ELSE ty = pat

\* Castable::is::<U>(): U::is_subtype(&self.get_type()).
Castable_is(U, ty) == is_subtype(U, ty)

\* Castable::downcast::<U>(): the same reference when is::<U>(), else None.
Castable_downcast(U, ty, ptr) == IF Castable_is(U, ty) THEN ptr ELSE NoPtr

\* Root::downcast::<U>(root): the transmuted root when root.is::<U>(), else None.
Root_downcast(U, ty, ptr) == IF Castable_is(U, ty) THEN ptr ELSE NoPtr

\* LayoutJS::downcast::<U>(): transmute_copy when (*self.unsafe_get()).is::<U>().
LayoutJS_downcast(U, ty, ptr) == IF Castable_is(U, ty) THEN ptr ELSE NoPtr

CastKinds == {"&T", "Root<T>", "LayoutJS<T>"}

NoCastInput == [via |-> "none", ptr |-> NoPtr, ty |-> <<>>, to |-> "none"]

NoCast == [is |-> FALSE, result |-> NoPtr, done |-> FALSE]

\* is::<U>() and downcast::<U>() type-check on an object with type id ty when it
\* can be held as some T (its own interface or one it derives from) with
\* U: DerivedFrom<T>, and U has a Typed impl.
CanAsk(ty, U) ==
    /\ U \in TypedInterfaces
    /\ \E T \in DerivedFromDecl[U] :
          InterfaceOf(ty) = T \/ DerivedFrom(InterfaceOf(ty), T)

CastInputs ==
    {in \in [via : CastKinds, ptr : Objects, ty : TypeIds, to : TypedInterfaces] :
        CanAsk(in.ty, in.to)}

\* The object of cast_in is asked is::<U>() and downcast::<U>().
Downcast ==
    /\ cast_in # NoCastInput
    /\ ~cast.done
    /\ cast' = [is |-> Castable_is(cast_in.to, cast_in.ty),
                result |-> CASE cast_in.via = "&T" ->
                                   Castable_downcast(cast_in.to, cast_in.ty, cast_in.ptr)
                             [] cast_in.via = "Root<T>" ->
                                   Root_downcast(cast_in.to, cast_in.ty, cast_in.ptr)
                             [] cast_in.via = "LayoutJS<T>" ->
                                   LayoutJS_downcast(cast_in.to, cast_in.ty, cast_in.ptr),
                done |-> TRUE]
    /\ UNCHANGED cast_in
    /\ CastOnly

InitCast ==
    /\ cast_in \in CastInputs
    /\ cast = NoCast

IdleCast ==
    /\ cast_in = NoCastInput
    /\ cast = NoCast

(***************************************************************************)
(* script_thread.rs: the event loop of ScriptThread (start / handle_msgs). *)
(* The thread of the model has the root page created by                    *)
(* initialize_default_content; nothing in the thread adds a child page or  *)
(* pushes an in-progress load.                                             *)
(***************************************************************************)
Pipelines == {"p1", "p2"}

\* state.id: the pipeline of the page made by initialize_default_content.
RootPipeline == "p1"

NoPipeline == "none"

\* WindowSizeData / mouse points, as small tokens.
Sizes == {1, 2}

Sources == {"control", "script", "timer", "devtools", "image"}

\* The messages the senders of the model put on each port, as [kind, p, v]:
\* resizes of the root page to either size, ticks and exits for either pipeline
\* (p2 has no page), a viewport and mouse moves for the root page.
ControlMsgs ==
    {[kind |-> "Resize", p |-> RootPipeline, v |-> v] : v \in Sizes}
    \cup {[kind |-> k, p |-> p, v |-> 0] :
             k \in {"TickAllAnimations", "ExitPipeline"}, p \in Pipelines}
    \cup {[kind |-> "MouseMoveEvent", p |-> RootPipeline, v |-> 1],
          [kind |-> "Viewport", p |-> RootPipeline, v |-> 0]}

PortMsgs(src) ==
    CASE src = "control" -> ControlMsgs
      [] src = "script" -> {[kind |-> "RunnableMsg", p |-> NoPipeline, v |-> 0]}
      [] src = "timer" -> {[kind |-> "TimerEvent", p |-> RootPipeline, v |-> 0]}
      [] src = "devtools" -> {[kind |-> "DevtoolScriptControlMsg", p |-> NoPipeline, v |-> 0]}
      [] src = "image" -> {[kind |-> "ImageCacheResult", p |-> RootPipeline, v |-> 1]}

\* The control messages of the batch specification: resizes of the root page,
\* mouse moves to either point for either pipeline (p2 has no page), a
\* viewport, an AttachLayout and the exit of the root pipeline.
BatchMsgs ==
    {[kind |-> "Resize", p |-> RootPipeline, v |-> v] : v \in Sizes}
    \cup {[kind |-> "MouseMoveEvent", p |-> p, v |-> v] : p \in Pipelines, v \in Sizes}
    \cup {[kind |-> k, p |-> RootPipeline, v |-> 0] :
             k \in {"Viewport", "AttachLayout", "ExitPipeline"}}

\* A message in flight: its port, the serial of its send on that port, and its
\* content.
MixedMessage(src, n, m) == [src |-> src, n |-> n, kind |-> m.kind, p |-> m.p, v |-> m.v]

NoMsg == [src |-> "none", n |-> 0, kind |-> "none", p |-> NoPipeline, v |-> 0]

\* The elements of a sequence.
Range(seq) == {seq[i] : i \in 1..Len(seq)}

\* Page::find / page.iter(): the pages of the tree, the root first.
Page_find(tree, id) == id \in Range(tree)

\* Page::remove(id): take a descendant page out of the tree.
Page_remove(tree, id) ==
    IF tree # <<>> /\ id # Head(tree)
    THEN SelectSeq(tree, LAMBDA q : q # id)
    ELSE tree

\* incomplete_loads.iter().position(|load| load.pipeline_id == id), 0 for None.
load_position(loads, id) ==
    IF \E i \in 1..Len(loads) : loads[i].pipeline_id = id
    THEN CHOOSE i \in 1..Len(loads) :
             /\ loads[i].pipeline_id = id
             /\ \A j \in 1..(i - 1) : loads[j].pipeline_id # id
    ELSE 0

\* Window::set_resize_event(size).
Window_set_resize_event(re, id, size) == [re EXCEPT ![id] = size]

\* Window::steal_resize_event() on every page of the tree.
Window_steal_resize_event(re, tree) ==
    [q \in Pipelines |-> IF Page_find(tree, q) THEN 0 ELSE re[q]]

\* handle_resize / handle_viewport: the page of the tree, else the in-progress
\* load, else panic!("... sent to nonexistent pipeline").
handle_resize_target(tree, loads, id) ==
    IF Page_find(tree, id) THEN "page"
    ELSE IF load_position(loads, id) # 0 THEN "load"
    ELSE "panic"

\* Does handling ev while collecting panic: assert!(false) for AttachLayout, and
\* the nonexistent pipeline of handle_resize and handle_viewport.
collect_panics(tree, loads, ev) ==
    \/ ev.kind = "AttachLayout"
    \/ /\ ev.kind \in {"Resize", "Viewport"}
       /\ handle_resize_target(tree, loads, ev.p) = "panic"

\* A Resize that is queued in the batch as well as applied.
squash_resize_queued(seq, ev) == Append(seq, ev)

\* The AttachLayout, Resize and Viewport arms push nothing on sequential.
squash_resize(seq, ev) == seq

\* Every TickAllAnimations is queued.
squash_tick_unchecked(seq, ticks, ev) == Append(seq, ev)

\* The TickAllAnimations arm: pushed unless animation_ticks holds its pipeline.
squash_tick(seq, ticks, ev) == IF ev.p \in ticks THEN seq ELSE Append(seq, ev)

\* A later mouse move is dropped instead of replacing the queued one.
squash_mouse_move_keeps_first(seq, index, ev) ==
    IF index = 0 THEN Append(seq, ev) ELSE seq

\* A mouse move that replaces the queued one only when it is for the same
\* pipeline, and is queued otherwise.
squash_mouse_move_per_pipeline(seq, index, ev) ==
    IF index = 0 THEN Append(seq, ev)
    ELSE IF seq[index].p = ev.p THEN [seq EXCEPT ![index] = ev]
    ELSE Append(seq, ev)

\* The MouseMoveEvent arm: pushed when mouse_move_event_index is None, else
\* sequential[index] = event.
squash_mouse_move(seq, index, ev) ==
    IF index = 0 THEN Append(seq, ev) ELSE [seq EXCEPT ![index] = ev]

\* A collecting loop whose Viewport arm pushes the message on sequential.
squash_viewport_pushed(seq, index, ticks, ev) ==
    CASE ev.kind \in {"AttachLayout", "Resize"} -> squash_resize(seq, ev)
      [] ev.kind = "TickAllAnimations" -> squash_tick(seq, ticks, ev)
      [] ev.kind = "MouseMoveEvent" -> squash_mouse_move(seq, index, ev)
      [] OTHER -> Append(seq, ev)

\* The match of the collecting loop: sequential after ev.
squash(seq, index, ticks, ev) ==
    CASE ev.kind \in {"AttachLayout", "Resize", "Viewport"} -> squash_resize(seq, ev)
      [] ev.kind = "TickAllAnimations" -> squash_tick(seq, ticks, ev)
      [] ev.kind = "MouseMoveEvent" -> squash_mouse_move(seq, index, ev)
      [] OTHER -> Append(seq, ev)

\* mouse_move_event_index after ev (Some(sequential.len()), counted from 1).
squash_index(seq, index, ev) ==
    IF ev.kind = "MouseMoveEvent" /\ index = 0 THEN Len(seq) + 1 ELSE index

\* animation_ticks after ev.
squash_ticks(ticks, ev) ==
    IF ev.kind = "TickAllAnimations" THEN ticks \cup {ev.p} ELSE ticks

\* A poll that asks the internal script port first.
PollOrder_script_first == <<"script", "control", "timer", "devtools", "image">>

\* The nested try_recv of the collecting loop, outermost first.
PollOrder == <<"control", "script", "timer", "devtools", "image">>

\* The port the nested try_recv takes a message from, "none" when all fail.
try_recv_source(pts) ==
    LET ready == {i \in 1..Len(PollOrder) : pts[PollOrder[i]] # <<>>}
    IN IF ready = {} THEN "none"
       ELSE PollOrder[CHOOSE i \in ready : \A j \in ready : i <= j]

\* The handles added to the Select: devtools_port only with a devtools_chan.
SelectHandles(chan) ==
    {"script", "control", "timer", "image"} \cup (IF chan THEN {"devtools"} ELSE {})

\* The (pipeline, size) pairs gathered from steal_resize_event, in page order.
stolen_resizes(tree, re) ==
    LET with == SelectSeq(tree, LAMBDA q : re[q] # 0)
    IN [i \in 1..Len(with) |-> [p |-> with[i], size |-> re[with[i]]]]

\* Stolen resize events that are thrown away.
handle_resize_events_ignored(ws, tree, resizes) == ws

\* handle_event(id, ResizeEvent(size)) for each stolen resize: nothing without a
\* root page, else handle_resize_event sets the window size.
handle_resize_events(ws, tree, resizes) ==
    IF tree = <<>> THEN ws
    ELSE [q \in Pipelines |->
             IF \E i \in 1..Len(resizes) : resizes[i].p = q
             THEN resizes[CHOOSE i \in 1..Len(resizes) : resizes[i].p = q].size
             ELSE ws[q]]

\* Does the handler of a batched message panic: get_page / expect on a pipeline
\* that is not in the tree, and the arms of handle_msg_from_constellation for
\* the kinds that are handled earlier.
handler_panics(tree, msg) ==
    \/ msg.kind \in {"AttachLayout", "Viewport", "Resize", "ExitPipeline"}
    \/ /\ msg.kind \in {"TickAllAnimations", "GetTitle", "TimerEvent"}
       /\ ~Page_find(tree, msg.p)
    \/ /\ msg.kind = "MouseMoveEvent"
       /\ tree # <<>>
       /\ ~Page_find(tree, msg.p)

\* The image responder of a message with v = 1 asks its window for a reflow.
ImageResponder_respond(prc, tree, msg) ==
    IF msg.v = 1 /\ Page_find(tree, msg.p)
    THEN [prc EXCEPT ![msg.p] = @ + 1]
    ELSE prc

\* handle_exit_pipeline_msg: which of its branches id takes.
exit_branch(tree, loads, id) ==
    IF load_position(loads, id) # 0 THEN "load"
    ELSE IF tree = <<>> THEN "panic"
    ELSE IF Head(tree) = id THEN "root"
    ELSE "child"

\* handle_exit_pipeline_msg: incomplete_loads after it.
exit_loads(tree, loads, id) ==
    LET idx == load_position(loads, id)
    IN IF idx # 0
       THEN SubSeq(loads, 1, idx - 1) \o SubSeq(loads, idx + 1, Len(loads))
       ELSE loads

\* An exit of the root pipeline that empties the page slot.
exit_tree_root_taken(tree, loads, id) ==
    CASE exit_branch(tree, loads, id) = "child" -> Page_remove(tree, id)
      [] exit_branch(tree, loads, id) = "root" -> <<>>
      [] OTHER -> tree

\* handle_exit_pipeline_msg: the page tree after it.
exit_tree(tree, loads, id) ==
    IF exit_branch(tree, loads, id) = "child" THEN Page_remove(tree, id) ELSE tree

\* The root page is left as it is when the root pipeline exits.
shut_down_layout_skipped(fr, pages) == fr

\* shut_down_layout(page_tree): page.set_frame(None) for every page of it.
shut_down_layout(fr, pages) == fr \ pages

\* handle_exit_pipeline_msg: the pages that keep their frame after it.
exit_frames(fr, tree, loads, id) ==
    CASE exit_branch(tree, loads, id) = "root" -> shut_down_layout(fr, Range(tree))
      [] exit_branch(tree, loads, id) = "child" -> shut_down_layout(fr, {id} \cap Range(tree))
      [] OTHER -> fr

\* An exit of a load that gives the terminal signal whatever else is left.
handle_exit_pipeline_msg_any_load(tree, loads, id) ==
    exit_branch(tree, loads, id) \in {"load", "root"}

\* handle_exit_pipeline_msg: its return value.
handle_exit_pipeline_msg(tree, loads, id) ==
    CASE exit_branch(tree, loads, id) = "load" ->
             Len(exit_loads(tree, loads, id)) = 0 /\ tree = <<>>
      [] exit_branch(tree, loads, id) = "root" -> TRUE
      [] OTHER -> FALSE

\* A dispatch loop that goes on after the exit of the root pipeline.
dispatch_result_ignored(shutdown) == FALSE

\* if self.handle_exit_pipeline_msg(id) { return Some(false) }: does the
\* dispatch loop return.
dispatch_result(shutdown) == shutdown

\* The match of the dispatch loop on a message: the handler it is given to.
\* ExitPipeline from the constellation has the first arm.
dispatch_arm(msg) ==
    CASE msg.src = "control" /\ msg.kind = "ExitPipeline" -> "handle_exit_pipeline_msg"
      [] msg.src = "control" -> "handle_msg_from_constellation"
      [] msg.src = "script" -> "handle_msg_from_script"
      [] msg.src = "timer" -> "handle_timer_event"
      [] msg.src = "devtools" -> "handle_msg_from_devtools"
      [] OTHER -> "handle_msg_from_image_cache"

\* A dispatch that takes the batch from its end.
dispatch_next_reversed(seq, i) == seq[Len(seq) + 1 - i]

\* A dispatch that handles the first message of the batch again and again.
dispatch_next_first(seq, i) == seq[1]

\* for msg in sequential: the i-th message dispatched.
dispatch_next(seq, i) == seq[i]

\* A reflow that always carries MissingExplicitReflow.
reflow_reason_missing(pending_reflows) == "MissingExplicitReflow"

\* The reason of the batched reflow of a page.
reflow_reason(pending_reflows) ==
    IF pending_reflows > 0 THEN "ImageLoaded" ELSE "MissingExplicitReflow"

\* The batched reflows: one per page of the tree, in page order.
batched_reflows(tree, prc) ==
    [i \in 1..Len(tree) |->
        [p |-> tree[i], reason |-> reflow_reason(prc[tree[i]]), pending |-> prc[tree[i]]]]

\* Window::reflow: the reflow takes up the pending ones.
Window_reflow(prc, tree) ==
    [q \in Pipelines |-> IF Page_find(tree, q) THEN 0 ELSE prc[q]]

Unpolled == [ready |-> {}, taken |-> "unpolled"]

\* The number of messages sent on all ports.
sent_total(cnt) ==
    cnt["control"] + cnt["script"] + cnt["timer"] + cnt["devtools"] + cnt["image"]

\* A sender puts message m on the port src.  The thread looks at its ports
\* only in the wait and in the polls of the collecting loop, so a send made
\* elsewhere is taken here at the next of these points.
Send(src, m) ==
    /\ pc \in {"waiting", "collecting"}
    /\ sent_total(sent) < MaxSent
    /\ sent' = [sent EXCEPT ![src] = @ + 1]
    /\ ports' = [ports EXCEPT ![src] = Append(@, MixedMessage(src, sent[src] + 1, m))]
    /\ UNCHANGED <<devtools_chan, pc, event, sequential, mouse_move_event_index,
                   animation_ticks, next_msg, page_tree, frames, incomplete_loads,
                   closed_pipelines, resize_event, window_size, pending_reflow_count,
                   collected, handled, effects, last_poll, resize_seen, resize_due,
                   resize_handled, reflows, returned>>
    /\ LoopOnly

\* handle_msgs, "Handle pending resize events": steal the resize event of every
\* page and handle each as a ResizeEvent.
steal_resizes ==
    /\ pc = "idle"
    /\ LET resizes == stolen_resizes(page_tree, resize_event)
       IN /\ resize_handled' = resizes
          /\ window_size' = handle_resize_events(window_size, page_tree, resizes)
    /\ resize_event' = Window_steal_resize_event(resize_event, page_tree)
    /\ resize_due' = resize_seen
    /\ resize_seen' = [q \in Pipelines |-> 0]
    /\ pc' = "waiting"
    /\ UNCHANGED <<devtools_chan, ports, sent, event, sequential, mouse_move_event_index,
                   animation_ticks, next_msg, page_tree, frames, incomplete_loads,
                   closed_pipelines, pending_reflow_count, collected, handled, effects,
                   last_poll, reflows, returned>>
    /\ LoopOnly

\* handle_msgs, "Receive at least one message": sel.wait() returns a ready
\* handle and its message is received.
select_wait(src) ==
    /\ pc = "waiting"
    /\ src \in SelectHandles(devtools_chan)
    /\ ports[src] # <<>>
    /\ event' = Head(ports[src])
    /\ ports' = [ports EXCEPT ![src] = Tail(@)]
    /\ sequential' = <<>>
    /\ mouse_move_event_index' = 0
    /\ animation_ticks' = {}
    /\ next_msg' = 1
    /\ collected' = <<>>
    /\ handled' = <<>>
    /\ reflows' = <<>>
    /\ last_poll' = Unpolled
    /\ returned' = "none"
    /\ pc' = "collecting"
    /\ UNCHANGED <<devtools_chan, sent, page_tree, frames, incomplete_loads,
                   closed_pipelines, resize_event, window_size, pending_reflow_count,
                   effects, resize_seen, resize_due, resize_handled>>
    /\ LoopOnly

\* One turn of the collecting loop: the match on event, then the nested try_recv.
collect ==
    /\ pc = "collecting"
    /\ collected' = Append(collected, event)
    /\ IF collect_panics(page_tree, incomplete_loads, event)
       THEN /\ pc' = "panicked"
            /\ UNCHANGED <<ports, event, sequential, mouse_move_event_index,
                           animation_ticks, incomplete_loads, resize_event, effects,
                           last_poll, resize_seen>>
       ELSE /\ LET target == handle_resize_target(page_tree, incomplete_loads, event.p)
               IN /\ resize_event' =
                         IF event.kind = "Resize" /\ target = "page"
                         THEN Window_set_resize_event(resize_event, event.p, event.v)
                         ELSE resize_event
                  /\ resize_seen' =
                         IF event.kind = "Resize" /\ target = "page"
                         THEN [resize_seen EXCEPT ![event.p] = event.v]
                         ELSE resize_seen
                  /\ incomplete_loads' =
                         IF event.kind = "Resize" /\ target = "load"
                         THEN [incomplete_loads EXCEPT
                                  ![load_position(incomplete_loads, event.p)].window_size =
                                      event.v]
                         ELSE incomplete_loads
            /\ effects' = IF event.kind \in {"Resize", "Viewport"}
                          THEN Append(effects, event)
                          ELSE effects
            /\ sequential' = squash(sequential, mouse_move_event_index,
                                    animation_ticks, event)
            /\ mouse_move_event_index' =
                   squash_index(sequential, mouse_move_event_index, event)
            /\ animation_ticks' = squash_ticks(animation_ticks, event)
            /\ LET src == try_recv_source(ports)
               IN /\ last_poll' = [ready |-> {s \in Sources : ports[s] # <<>>},
                                   taken |-> src]
                  /\ IF src = "none"
                     THEN /\ pc' = "dispatching"
                          /\ event' = NoMsg
                          /\ ports' = ports
                     ELSE /\ pc' = "collecting"
                          /\ event' = Head(ports[src])
                          /\ ports' = [ports EXCEPT ![src] = Tail(@)]
    /\ UNCHANGED <<devtools_chan, sent, next_msg, page_tree, frames, closed_pipelines,
                   window_size, pending_reflow_count, handled, resize_due,
                   resize_handled, reflows, returned>>
    /\ LoopOnly

\* "Process the gathered events": the next message of the batch is handled.
dispatch ==
    /\ pc = "dispatching"
    /\ next_msg <= Len(sequential)
    /\ LET msg == dispatch_next(sequential, next_msg)
       IN /\ handled' = Append(handled, msg)
          /\ effects' = Append(effects, msg)
          /\ next_msg' = next_msg + 1
          /\ IF dispatch_arm(msg) = "handle_exit_pipeline_msg"
             THEN /\ closed_pipelines' = closed_pipelines \cup {msg.p}
                  /\ IF exit_branch(page_tree, incomplete_loads, msg.p) = "panic"
                     THEN /\ pc' = "panicked"
                          /\ UNCHANGED <<page_tree, frames, incomplete_loads, returned>>
                     ELSE /\ incomplete_loads' =
                                 exit_loads(page_tree, incomplete_loads, msg.p)
                          /\ page_tree' = exit_tree(page_tree, incomplete_loads, msg.p)
                          /\ frames' = exit_frames(frames, page_tree, incomplete_loads, msg.p)
                          /\ IF dispatch_result(handle_exit_pipeline_msg(
                                     page_tree, incomplete_loads, msg.p))
                             THEN pc' = "exited" /\ returned' = "false"
                             ELSE UNCHANGED <<pc, returned>>
                  /\ UNCHANGED pending_reflow_count
             ELSE /\ IF handler_panics(page_tree, msg)
                     THEN pc' = "panicked" /\ UNCHANGED pending_reflow_count
                     ELSE /\ pending_reflow_count' =
                                 IF msg.kind = "ImageCacheResult"
                                 THEN ImageResponder_respond(pending_reflow_count,
                                                             page_tree, msg)
                                 ELSE pending_reflow_count
                          /\ UNCHANGED pc
                  /\ UNCHANGED <<page_tree, frames, incomplete_loads, closed_pipelines,
                                 returned>>
    /\ UNCHANGED <<devtools_chan, ports, sent, event, sequential, mouse_move_event_index,
                   animation_ticks, resize_event, window_size, collected, last_poll,
                   resize_seen, resize_due, resize_handled, reflows>>
    /\ LoopOnly

\* "Issue batched reflows" after the last message of the batch; handle_msgs
\* returns true and start calls it again.
issue_batched_reflows ==
    /\ pc = "dispatching"
    /\ next_msg > Len(sequential)
    /\ reflows' = batched_reflows(page_tree, pending_reflow_count)
    /\ pending_reflow_count' = Window_reflow(pending_reflow_count, page_tree)
    /\ returned' = "true"
    /\ pc' = "idle"
    /\ UNCHANGED <<devtools_chan, ports, sent, event, sequential, mouse_move_event_index,
                   animation_ticks, next_msg, page_tree, frames, incomplete_loads,
                   closed_pipelines, resize_event, window_size, collected, handled,
                   effects, last_poll, resize_seen, resize_due, resize_handled>>
    /\ LoopOnly

\* ScriptThread::new, then initialize_default_content: the root page with its
\* frame, no in-progress load, nothing received.
InitLoop ==
    /\ devtools_chan \in BOOLEAN
    /\ ports = [s \in Sources |-> <<>>]
    /\ sent = [src \in Sources |-> 0]
    /\ pc = "idle"
    /\ event = NoMsg
    /\ sequential = <<>>
    /\ mouse_move_event_index = 0
    /\ animation_ticks = {}
    /\ next_msg = 1
    /\ page_tree = <<RootPipeline>>
    /\ frames = {RootPipeline}
    /\ incomplete_loads = <<>>
    /\ closed_pipelines = {}
    /\ resize_event = [q \in Pipelines |-> 0]
    /\ window_size = [q \in Pipelines |-> 0]
    /\ pending_reflow_count = [q \in Pipelines |-> 0]
    /\ collected = <<>>
    /\ handled = <<>>
    /\ effects = <<>>
    /\ last_poll = Unpolled
    /\ resize_seen = [q \in Pipelines |-> 0]
    /\ resize_due = [q \in Pipelines |-> 0]
    /\ resize_handled = <<>>
    /\ reflows = <<>>
    /\ returned = "none"

\* The thread as constructed, without a devtools channel.
IdleLoop ==
    /\ InitLoop
    /\ devtools_chan = FALSE


(***************************************************************************)
(* script_thread.rs: cancellable runnables.  A RunnableWrapper holds a     *)
(* shared flag; every runnable it wraps reads that flag in is_cancelled().  *)
(* Any thread holding the wrapper may store to the flag at any time.       *)
(***************************************************************************)
Wrappers == {"w1", "w2"}

\* A runnable sent as it is, not through a RunnableWrapper.
NoWrapper == "plain"

Runnables == 1..MaxRunnables

\* A dispatch that never looks at the flag.
is_cancelled_never(w, flags) == FALSE

\* Runnable::is_cancelled: false by default, cancelled.load(Relaxed) for a
\* CancellableRunnable.
is_cancelled(w, flags) == IF w = NoWrapper THEN FALSE ELSE flags[w]

\* handle_msg_from_script, RunnableMsg arm: if !runnable.is_cancelled()
\* { runnable.handler() }.
handle_runnable(is_c) == IF ~is_c THEN "running" ELSE "discarded"

\* Another thread stores b in the flag of wrapper w.
set_cancelled(w, b) ==
    /\ cancelled[w] # b
    /\ cancelled' = [cancelled EXCEPT ![w] = b]
    /\ UNCHANGED <<runnable_of, run_state, flag_at_dispatch>>
    /\ RunnableOnly

\* The script thread dispatches the oldest RunnableMsg it has not handled: it
\* reads the flag once and either starts the handler or drops the runnable.
dispatch_runnable(r) ==
    /\ run_state[r] = "queued"
    /\ \A q \in Runnables : q < r => run_state[q] \in {"done", "discarded"}
    /\ run_state' =
           [run_state EXCEPT ![r] = handle_runnable(is_cancelled(runnable_of[r], cancelled))]
    /\ flag_at_dispatch' =
           [flag_at_dispatch EXCEPT
               ![r] = IF runnable_of[r] # NoWrapper /\ cancelled[runnable_of[r]]
                      THEN "set" ELSE "clear"]
    /\ UNCHANGED <<cancelled, runnable_of>>
    /\ RunnableOnly

\* The handler of a started runnable returns; nothing reads the flag on the way.
run_handler(r) ==
    /\ run_state[r] = "running"
    /\ run_state' = [run_state EXCEPT ![r] = "done"]
    /\ UNCHANGED <<cancelled, runnable_of, flag_at_dispatch>>
    /\ RunnableOnly

\* Runnables wrapped and queued on the script port, flags clear.
InitRunnable ==
    /\ cancelled = [w \in Wrappers |-> FALSE]
    /\ runnable_of \in [Runnables -> Wrappers \cup {NoWrapper}]
    /\ run_state = [r \in Runnables |-> "queued"]
    /\ flag_at_dispatch = [r \in Runnables |-> "unread"]

\* Unwrapped runnables that are left on the port.
IdleRunnable ==
    /\ cancelled = [w \in Wrappers |-> FALSE]
    /\ runnable_of = [r \in Runnables |-> NoWrapper]
    /\ run_state = [r \in Runnables |-> "queued"]
    /\ flag_at_dispatch = [r \in Runnables |-> "unread"]

(***************************************************************************)
(* script_thread.rs: the handlers that look a pipeline up, the teardown of  *)
(* layouts and the ScriptMemoryFailsafe.  The handlers are written for any  *)
(* state of ScriptThread.page and ScriptThread.incomplete_loads: no root    *)
(* page, a root page with descendants, loads in progress.  The thread is    *)
(* taken inside start(), in each such state, and its handlers are called    *)
(* one after the other.                                                    *)
(***************************************************************************)
ThreadPipelines == Pipelines \cup {"p3"}

\* InProgressLoad::new: no clip rectangle, not frozen; 0 stands for None.
InProgressLoad_new(id) ==
    [pipeline_id |-> id, window_size |-> 0, clip_rect |-> 0, is_frozen |-> FALSE]

\* The window of a page with a frame: its script-engine context is attached.
Window_new(live) ==
    [resize_event |-> 0, clip_rect |-> 0, frozen |-> FALSE, js_runtime |-> TRUE,
     detached |-> 0, live_devtools_updates |-> live]

\* No window was made for the pipeline.
NoWindow ==
    [resize_event |-> 0, clip_rect |-> 0, frozen |-> FALSE, js_runtime |-> FALSE,
     detached |-> 0, live_devtools_updates |-> FALSE]

\* The page trees taken: none, the root page alone, the root page and a child.
PageTrees == {<<>>, <<RootPipeline>>, <<RootPipeline, "p2">>}

\* The load queues taken with a tree: up to two loads of pipelines without a page.
LoadQueues(tree) ==
    LET free == ThreadPipelines \ Range(tree)
    IN {<<>>}
       \cup {<<InProgressLoad_new(a)>> : a \in free}
       \cup {<<InProgressLoad_new(ab[1]), InProgressLoad_new(ab[2])>> :
                ab \in {x \in free \X free : x[1] # x[2]}}

\* What a layout does with a PrepareToExit: its receiver is gone and the send
\* fails, it replies, it goes away with the request pending and the reply
\* channel is dropped, or it keeps the reply channel and never replies.
LayoutOutcomes == {"ok", "failed", "no reply", "silent"}

\* self.root_page().find(id) in handle_thaw_msg, then the loads, else panic.
handle_thaw_target(tree, loads, id) ==
    IF tree = <<>> THEN "panic"
    ELSE IF Page_find(tree, id) THEN "page"
    ELSE IF load_position(loads, id) # 0 THEN "load"
    ELSE "panic"

\* handle_freeze_msg: the page if there is a root page that finds it, then the
\* loads, else panic.
handle_freeze_target(tree, loads, id) ==
    IF tree # <<>> /\ Page_find(tree, id) THEN "page"
    ELSE IF load_position(loads, id) # 0 THEN "load"
    ELSE "panic"

\* handle_timer_event: root_page() and find(..).expect(..).
handle_timer_target(tree, id) ==
    IF tree # <<>> /\ Page_find(tree, id) THEN "page" ELSE "panic"

\* handle_css_error_reporting: root_page(), then return when find gives None.
handle_css_error_target(tree, id) ==
    IF tree = <<>> THEN "panic"
    ELSE IF Page_find(tree, id) THEN "page"
    ELSE "none"

\* A report that is sent whatever the window says.
css_error_sent_always(chan, live) == chan

\* handle_css_error_reporting: if window.live_devtools_updates() { if let
\* Some(ref chan) = self.devtools_chan { chan.send(ReportCSSError(..)) } }.
css_error_sent(chan, live) == live /\ chan

\* The handshake with the layout of an in-progress load: PrepareToExit, the
\* wait for the reply, ExitNow.
load_handshake(id, outcome) ==
    CASE outcome = "failed" -> <<[to |-> id, msg |-> "PrepareToExit failed"]>>
      [] outcome = "ok" -> <<[to |-> id, msg |-> "PrepareToExit"],
                            [to |-> id, msg |-> "reply"],
                            [to |-> id, msg |-> "ExitNow"]>>
      [] outcome = "no reply" -> <<[to |-> id, msg |-> "PrepareToExit"],
                                  [to |-> id, msg |-> "recv failed"]>>
      [] OTHER -> <<[to |-> id, msg |-> "PrepareToExit"]>>

\* shut_down_layout, first loop: PrepareToExit to the layout of every page and
\* the wait for its reply; response_port.recv().unwrap() panics when the layout
\* went away, and does not return while the layout keeps the channel and is
\* silent; the loop ends there.
RECURSIVE prepare_to_exit(_, _)
prepare_to_exit(pages, o) ==
    IF pages = <<>> THEN <<>>
    ELSE LET q == Head(pages)
         IN CASE o[q] = "failed" ->
                     <<[to |-> q, msg |-> "PrepareToExit failed"]>>
                         \o prepare_to_exit(Tail(pages), o)
              [] o[q] = "ok" ->
                     <<[to |-> q, msg |-> "PrepareToExit"], [to |-> q, msg |-> "reply"]>>
                         \o prepare_to_exit(Tail(pages), o)
              [] o[q] = "no reply" ->
                     <<[to |-> q, msg |-> "PrepareToExit"], [to |-> q, msg |-> "recv failed"]>>
              [] OTHER -> <<[to |-> q, msg |-> "PrepareToExit"]>>

\* A first loop that waits for no reply.
prepare_stop_never(pages, o) == "none"

\* The first loop stops at the first page whose layout took the request and
\* does not reply: how that recv() ends, "none" when every recv() returns.
RECURSIVE prepare_stop(_, _)
prepare_stop(pages, o) ==
    IF pages = <<>> THEN "none"
    ELSE IF o[Head(pages)] \in {"no reply", "silent"} THEN o[Head(pages)]
    ELSE prepare_stop(Tail(pages), o)

prepare_panics(pages, o) == prepare_stop(pages, o) = "no reply"

prepare_blocks(pages, o) == prepare_stop(pages, o) = "silent"

\* Every page is taken for a layout to send ExitNow to.
layout_channels_all(pages, o) == pages

\* shut_down_layout: channels, the layouts whose PrepareToExit send succeeded.
layout_channels(pages, o) == SelectSeq(pages, LAMBDA q : o[q] = "ok")

\* Only the first page has its context detached.
RECURSIVE detach_contexts_first(_)
detach_contexts_first(pages) ==
    IF pages = <<>> THEN <<>>
    ELSE <<[to |-> Head(pages), msg |-> "clear_js_runtime"],
           [to |-> Head(pages), msg |-> "set_frame(None)"]>>

\* shut_down_layout, second loop: window.clear_js_runtime() and
\* page.set_frame(None) for every page.
RECURSIVE detach_contexts(_)
detach_contexts(pages) ==
    IF pages = <<>> THEN <<>>
    ELSE <<[to |-> Head(pages), msg |-> "clear_js_runtime"],
           [to |-> Head(pages), msg |-> "set_frame(None)"]>>
             \o detach_contexts(Tail(pages))

\* shut_down_layout, third loop: ExitNow on every channel kept.
exit_now(chans) == [i \in 1..Len(chans) |-> [to |-> chans[i], msg |-> "ExitNow"]]

\* shut_down_layout(page_tree) as the sequence of what it does.
shut_down_layout_events(pages, o) ==
    IF prepare_stop(pages, o) # "none"
    THEN prepare_to_exit(pages, o)
    ELSE prepare_to_exit(pages, o) \o detach_contexts(pages)
             \o exit_now(layout_channels(pages, o))

\* The windows whose context a sequence of events detaches.
cleared_by(events) ==
    {events[i].to : i \in {j \in 1..Len(events) :
                              events[j].msg \in {"clear_js_runtime",
                                                 "clear_js_runtime_for_script_deallocation"}}}

\* Window::clear_js_runtime / clear_js_runtime_for_script_deallocation on the
\* windows of qs.
Window_clear_js_runtime(ws, qs) ==
    [q \in ThreadPipelines |->
        IF q \in qs
        THEN [ws[q] EXCEPT !.js_runtime = FALSE, !.detached = @ + 1]
        ELSE ws[q]]

\* An exit that shuts down the layout of every page for any pipeline that is
\* not a load.
exit_pages_whole_tree(tree, loads, id) ==
    IF exit_branch(tree, loads, id) \in {"root", "child"} THEN tree ELSE <<>>

\* handle_exit_pipeline_msg: the pages it shuts the layout of.
exit_pages(tree, loads, id) ==
    CASE exit_branch(tree, loads, id) = "root" -> tree
      [] exit_branch(tree, loads, id) = "child" /\ Page_find(tree, id) -> <<id>>
      [] OTHER -> <<>>

\* handle_exit_pipeline_msg: what it does to layouts, contexts and frames.
exit_events(tree, loads, id, o) ==
    CASE exit_branch(tree, loads, id) = "load" -> load_handshake(id, o[id])
      [] exit_branch(tree, loads, id) \in {"root", "child"} ->
             shut_down_layout_events(exit_pages(tree, loads, id), o)
      [] OTHER -> <<>>

\* handle_exit_pipeline_msg: does it panic, on root_page() without a root page
\* or on the reply of a layout that went away.
exit_panics(tree, loads, id, o) ==
    \/ exit_branch(tree, loads, id) = "panic"
    \/ exit_branch(tree, loads, id) = "load" /\ o[id] = "no reply"
    \/ /\ exit_branch(tree, loads, id) \in {"root", "child"}
       /\ prepare_panics(exit_pages(tree, loads, id), o)

\* handle_exit_pipeline_msg: does it wait for ever for the reply of a layout.
exit_blocks(tree, loads, id, o) ==
    \/ exit_branch(tree, loads, id) = "load" /\ o[id] = "silent"
    \/ /\ exit_branch(tree, loads, id) \in {"root", "child"}
       /\ prepare_blocks(exit_pages(tree, loads, id), o)

\* The record of a handler call.
ThreadCall(op, id, target, outcome, terminal) ==
    [op |-> op, id |-> id, target |-> target, outcome |-> outcome, terminal |-> terminal,
     tree_before |-> page_tree, loads_before |-> incomplete_loads,
     windows_before |-> windows, log_from |-> Len(layout_log)]

NoThreadCall ==
    [op |-> "none", id |-> NoPipeline, target |-> "none", outcome |-> "none",
     terminal |-> FALSE, tree_before |-> <<>>, loads_before |-> <<>>,
     windows_before |-> [q \in ThreadPipelines |-> NoWindow], log_from |-> 0]

\* A handler that looks a pipeline up panics when it finds neither page nor load.
targeted_outcome(target) == IF target = "panic" THEN "panicked" ELSE "returned"

targeted_pc(target) == IF target = "panic" THEN "unwinding" ELSE "running"

\* The windows after a handler that found the page of id gave it field = v.
targeted_windows(ws, target, id, field, v) ==
    IF target # "page" THEN ws
    ELSE [ws EXCEPT ![id] =
             CASE field = "resize_event" -> [@ EXCEPT !.resize_event = v]
               [] field = "clip_rect" -> [@ EXCEPT !.clip_rect = v]
               [] field = "frozen" -> [@ EXCEPT !.frozen = v]
               [] OTHER -> @]

\* The loads after a handler that found the load of id gave it field = v.
targeted_loads(loads, target, id, field, v) ==
    IF target # "load" THEN loads
    ELSE [loads EXCEPT ![load_position(loads, id)] =
             CASE field = "window_size" -> [@ EXCEPT !.window_size = v]
               [] field = "clip_rect" -> [@ EXCEPT !.clip_rect = v]
               [] field = "is_frozen" -> [@ EXCEPT !.is_frozen = v]
               [] OTHER -> @]

\* handle_resize(id, size): window.set_resize_event(size) or load.window_size = Some(size).
handle_resize(id, size) ==
    LET target == handle_resize_target(page_tree, incomplete_loads, id)
    IN /\ thread_pc = "running"
       /\ thread_calls < MaxCalls
       /\ thread_calls' = thread_calls + 1
       /\ thread_call' = ThreadCall("Resize", id, target, targeted_outcome(target), FALSE)
       /\ thread_pc' = targeted_pc(target)
       /\ windows' = targeted_windows(windows, target, id, "resize_event", size)
       /\ incomplete_loads' = targeted_loads(incomplete_loads, target, id, "window_size", size)
       /\ UNCHANGED <<devtools_chan, page_tree, frames, closed_pipelines, failsafe_owner,
                      layout_log, devtools_out>>
       /\ ThreadOnly

\* handle_viewport(id, rect): the clip rectangle of the window or of the load.
handle_viewport(id, rect) ==
    LET target == handle_resize_target(page_tree, incomplete_loads, id)
    IN /\ thread_pc = "running"
       /\ thread_calls < MaxCalls
       /\ thread_calls' = thread_calls + 1
       /\ thread_call' = ThreadCall("Viewport", id, target, targeted_outcome(target), FALSE)
       /\ thread_pc' = targeted_pc(target)
       /\ windows' = targeted_windows(windows, target, id, "clip_rect", rect)
       /\ incomplete_loads' = targeted_loads(incomplete_loads, target, id, "clip_rect", rect)
       /\ UNCHANGED <<devtools_chan, page_tree, frames, closed_pipelines, failsafe_owner,
                      layout_log, devtools_out>>
       /\ ThreadOnly

\* handle_freeze_msg(id): window.freeze() or load.is_frozen = true.
handle_freeze_msg(id) ==
    LET target == handle_freeze_target(page_tree, incomplete_loads, id)
    IN /\ thread_pc = "running"
       /\ thread_calls < MaxCalls
       /\ thread_calls' = thread_calls + 1
       /\ thread_call' = ThreadCall("Freeze", id, target, targeted_outcome(target), FALSE)
       /\ thread_pc' = targeted_pc(target)
       /\ windows' = targeted_windows(windows, target, id, "frozen", TRUE)
       /\ incomplete_loads' = targeted_loads(incomplete_loads, target, id, "is_frozen", TRUE)
       /\ UNCHANGED <<devtools_chan, page_tree, frames, closed_pipelines, failsafe_owner,
                      layout_log, devtools_out>>
       /\ ThreadOnly

\* handle_thaw_msg(id): window.thaw() or load.is_frozen = false.
handle_thaw_msg(id) ==
    LET target == handle_thaw_target(page_tree, incomplete_loads, id)
    IN /\ thread_pc = "running"
       /\ thread_calls < MaxCalls
       /\ thread_calls' = thread_calls + 1
       /\ thread_call' = ThreadCall("Thaw", id, target, targeted_outcome(target), FALSE)
       /\ thread_pc' = targeted_pc(target)
       /\ windows' = targeted_windows(windows, target, id, "frozen", FALSE)
       /\ incomplete_loads' = targeted_loads(incomplete_loads, target, id, "is_frozen", FALSE)
       /\ UNCHANGED <<devtools_chan, page_tree, frames, closed_pipelines, failsafe_owner,
                      layout_log, devtools_out>>
       /\ ThreadOnly

\* handle_timer_event(TimerEvent(FromWindow(id), _)): window.handle_fire_timer.
handle_timer_event(id) ==
    LET target == handle_timer_target(page_tree, id)
    IN /\ thread_pc = "running"
       /\ thread_calls < MaxCalls
       /\ thread_calls' = thread_calls + 1
       /\ thread_call' = ThreadCall("TimerEvent", id, target, targeted_outcome(target), FALSE)
       /\ thread_pc' = targeted_pc(target)
       /\ windows' = targeted_windows(windows, target, id, "none", 0)
       /\ incomplete_loads' = targeted_loads(incomplete_loads, target, id, "none", 0)
       /\ UNCHANGED <<devtools_chan, page_tree, frames, closed_pipelines, failsafe_owner,
                      layout_log, devtools_out>>
       /\ ThreadOnly

\* handle_css_error_reporting(id, ..).
handle_css_error_reporting(id) ==
    LET target == handle_css_error_target(page_tree, id)
    IN /\ thread_pc = "running"
       /\ thread_calls < MaxCalls
       /\ thread_calls' = thread_calls + 1
       /\ thread_call' = ThreadCall("ReportCSSError", id, target,
                                    IF target = "panic" THEN "panicked" ELSE "returned",
                                    FALSE)
       /\ thread_pc' = IF target = "panic" THEN "unwinding" ELSE "running"
       /\ devtools_out' =
              IF /\ target = "page"
                 /\ css_error_sent(devtools_chan, windows[id].live_devtools_updates)
              THEN Append(devtools_out, [msg |-> "ReportCSSError", p |-> id])
              ELSE devtools_out
       /\ UNCHANGED <<devtools_chan, page_tree, frames, incomplete_loads, closed_pipelines,
                      failsafe_owner, windows, layout_log>>
       /\ ThreadOnly

\* notify_devtools(title, url, (id, None)).
notify_devtools(id) ==
    /\ thread_pc = "running"
    /\ thread_calls < MaxCalls
    /\ thread_calls' = thread_calls + 1
    /\ thread_call' = ThreadCall("NewGlobal", id, "none", "returned", FALSE)
    /\ devtools_out' =
           IF devtools_chan
           THEN Append(devtools_out, [msg |-> "NewGlobal", p |-> id])
           ELSE devtools_out
    /\ UNCHANGED <<devtools_chan, page_tree, frames, incomplete_loads, closed_pipelines,
                   thread_pc, failsafe_owner, windows, layout_log>>
    /\ ThreadOnly

\* handle_exit_pipeline_msg: the layouts it sends PrepareToExit to.
exit_layouts(tree, loads, id) ==
    IF exit_branch(tree, loads, id) = "load" THEN {id}
    ELSE Range(exit_pages(tree, loads, id))

\* The dispatch of ExitPipeline(id): handle_exit_pipeline_msg, and the return
\* of handle_msgs and start when it gives true.  The layouts answer as in o,
\* any of the ways they can; a thread left waiting in recv() takes no further
\* step.
exit_pipeline(id) ==
    \E o \in [exit_layouts(page_tree, incomplete_loads, id) -> LayoutOutcomes] :
        LET panics == exit_panics(page_tree, incomplete_loads, id, o)
            blocks == exit_blocks(page_tree, incomplete_loads, id, o)
            events == exit_events(page_tree, incomplete_loads, id, o)
            terminal == /\ ~panics
                        /\ ~blocks
                        /\ handle_exit_pipeline_msg(page_tree, incomplete_loads, id)
        IN /\ thread_pc = "running"
           /\ thread_calls < MaxCalls
           /\ thread_calls' = thread_calls + 1
           /\ thread_call' = ThreadCall("ExitPipeline", id,
                                        exit_branch(page_tree, incomplete_loads, id),
                                        IF panics THEN "panicked"
                                        ELSE IF blocks THEN "blocked" ELSE "returned",
                                        terminal)
           /\ closed_pipelines' = closed_pipelines \cup {id}
           /\ incomplete_loads' = exit_loads(page_tree, incomplete_loads, id)
           /\ page_tree' = exit_tree(page_tree, incomplete_loads, id)
           /\ frames' = IF panics \/ blocks THEN frames
                        ELSE exit_frames(frames, page_tree, incomplete_loads, id)
           /\ windows' = Window_clear_js_runtime(windows, cleared_by(events))
           /\ layout_log' = layout_log \o events
           /\ thread_pc' = IF panics THEN "unwinding"
                           ELSE IF blocks THEN "blocked"
                           ELSE IF terminal THEN "returned" ELSE "running"
           /\ UNCHANGED <<devtools_chan, failsafe_owner, devtools_out>>
           /\ ThreadOnly

\* A neuter that leaves the owner in place.
ScriptMemoryFailsafe_neuter_forgotten(owner) == owner

\* ScriptMemoryFailsafe::neuter: self.owner = None.
ScriptMemoryFailsafe_neuter(owner) == FALSE

\* owner.page.borrow_for_script_deallocation().iter(): the iterator of the
\* Option that holds the root page, so the root page and no other.
Option_iter(tree) == IF tree = <<>> THEN <<>> ELSE <<Head(tree)>>

\* Drop for ScriptMemoryFailsafe, as the sequence of what it does.
ScriptMemoryFailsafe_drop(owner, tree) ==
    IF owner
    THEN [i \in 1..Len(Option_iter(tree)) |->
             [to |-> Option_iter(tree)[i],
              msg |-> "clear_js_runtime_for_script_deallocation"]]
    ELSE <<>>

\* create: failsafe.neuter(), the last statement after start() returned.
failsafe_neuter ==
    /\ thread_pc = "returned"
    /\ thread_pc' = "neutered"
    /\ failsafe_owner' = ScriptMemoryFailsafe_neuter(failsafe_owner)
    /\ UNCHANGED <<devtools_chan, page_tree, frames, incomplete_loads, closed_pipelines,
                   windows, layout_log, devtools_out, thread_call, thread_calls>>
    /\ ThreadOnly

\* The failsafe goes out of scope: at the end of the closure, or while a panic
\* unwinds it.
failsafe_drop ==
    /\ thread_pc \in {"neutered", "unwinding"}
    /\ thread_pc' = "done"
    /\ LET events == ScriptMemoryFailsafe_drop(failsafe_owner, page_tree)
       IN /\ layout_log' = layout_log \o events
          /\ windows' = Window_clear_js_runtime(windows, cleared_by(events))
    /\ UNCHANGED <<devtools_chan, page_tree, frames, incomplete_loads, closed_pipelines,
                   failsafe_owner, devtools_out, thread_call, thread_calls>>
    /\ ThreadOnly

\* The rest of the event loop, not running.
LoopLocalsIdle ==
    /\ ports = [s \in Sources |-> <<>>]
    /\ sent = [src \in Sources |-> 0]
    /\ pc = "idle"
    /\ event = NoMsg
    /\ sequential = <<>>
    /\ mouse_move_event_index = 0
    /\ animation_ticks = {}
    /\ next_msg = 1
    /\ resize_event = [q \in Pipelines |-> 0]
    /\ window_size = [q \in Pipelines |-> 0]
    /\ pending_reflow_count = [q \in Pipelines |-> 0]
    /\ collected = <<>>
    /\ handled = <<>>
    /\ effects = <<>>
    /\ last_poll = Unpolled
    /\ resize_seen = [q \in Pipelines |-> 0]
    /\ resize_due = [q \in Pipelines |-> 0]
    /\ resize_handled = <<>>
    /\ reflows = <<>>
    /\ returned = "none"

\* The thread inside start(), the failsafe armed, in any state of its page
\* tree and its loads; every page has its frame and its context.
InitThread ==
    /\ devtools_chan \in BOOLEAN
    /\ page_tree \in PageTrees
    /\ incomplete_loads \in LoadQueues(page_tree)
    /\ frames = Range(page_tree)
    /\ closed_pipelines = {}
    /\ \E live \in SUBSET Range(page_tree) :
           windows = [q \in ThreadPipelines |->
                         IF q \in Range(page_tree) THEN Window_new(q \in live)
                         ELSE NoWindow]
    /\ thread_pc = "running"
    /\ failsafe_owner = TRUE
    /\ layout_log = <<>>
    /\ devtools_out = <<>>
    /\ thread_call = NoThreadCall
    /\ thread_calls = 0
    /\ LoopLocalsIdle

\* The thread of the event loop model: the root page, no handler called.
IdleThread ==
    /\ windows = [q \in ThreadPipelines |->
                     IF q = RootPipeline THEN Window_new(FALSE) ELSE NoWindow]
    /\ thread_pc = "running"
    /\ failsafe_owner = TRUE
    /\ layout_log = <<>>
    /\ devtools_out = <<>>
    /\ thread_call = NoThreadCall
    /\ thread_calls = 0

(***************************************************************************)
(* eventtarget.rs: the listeners of one EventTarget.  handlers maps an      *)
(* event type to a Vec of EventListenerEntry; an entry is an additive       *)
(* listener with its phase or the one inline handler of the type.           *)
(* EventListener is a generated binding type; its equality is the derived   *)
(* one and rests on CallbackInterface, so it is taken both as the identity  *)
(* of the callback and as always equal (callback.rs: a struct without       *)
(* fields).                                                                 *)
(***************************************************************************)
EventTypes == {"click", "load"}

Listeners == {"l1", "l2"}

\* listener: Option<Rc<EventListener>> given as None.
NoListener == "null"

InlineHandlers == {"h1"}

ListenerEqualities == {"identity", "always"}

\* let phase = if capture { Capturing } else { Bubbling }.
ListenerPhase(capture) == IF capture THEN "Capturing" ELSE "Bubbling"

\* EventListenerEntry { phase, listener: EventListenerType::Additive(listener) }.
Additive(listener, capture) ==
    [phase |-> ListenerPhase(capture), kind |-> "Additive", v |-> listener]

\* EventListenerEntry { phase: Bubbling, listener: EventListenerType::Inline(h) }.
Inline(h) == [phase |-> "Bubbling", kind |-> "Inline", v |-> h]

\* PartialEq of Rc<EventListener>.
EventListener_eq(a, b, eq) == eq = "always" \/ a = b

\* The derived PartialEq of EventListenerEntry: the phases and the listeners
\* are equal; an Additive is never equal to an Inline.
EventListenerEntry_eq(a, b, eq) ==
    /\ a.phase = b.phase
    /\ a.kind = b.kind
    /\ IF a.kind = "Additive" THEN EventListener_eq(a.v, b.v, eq) ELSE a.v = b.v

\* Vec::contains.
Vec_contains(list, e, eq) == \E i \in 1..Len(list) : EventListenerEntry_eq(list[i], e, eq)

\* iter().position(|e| *e == old_entry), 0 for None.
Vec_position(list, e, eq) ==
    IF Vec_contains(list, e, eq)
    THEN CHOOSE i \in 1..Len(list) :
             /\ EventListenerEntry_eq(list[i], e, eq)
             /\ \A j \in 1..(i - 1) : ~EventListenerEntry_eq(list[j], e, eq)
    ELSE 0

\* Vec::remove(position).
Vec_remove(list, k) == SubSeq(list, 1, k - 1) \o SubSeq(list, k + 1, Len(list))

\* AddEventListener: if !entry.contains(&new_entry) { entry.push(new_entry) }.
add_entry(list, e, eq) == IF ~Vec_contains(list, e, eq) THEN Append(list, e) ELSE list

\* RemoveEventListener: the first entry equal to old_entry is removed.
remove_entry(list, e, eq) ==
    IF Vec_position(list, e, eq) # 0
    THEN Vec_remove(list, Vec_position(list, e, eq))
    ELSE list

\* handlers.entry(ty): the list of the type, made empty when the type is vacant.
entry_of(h, ty) == IF ty \in DOMAIN h THEN h[ty] ELSE <<>>

\* The map with the list of ty set to list.
with_entry(h, ty, list) ==
    [t \in DOMAIN h \cup {ty} |-> IF t = ty THEN list ELSE h[t]]

\* The index of the inline entry of a list, 0 for None.
inline_position(list) ==
    IF \E i \in 1..Len(list) : list[i].kind = "Inline"
    THEN CHOOSE i \in 1..Len(list) :
             /\ list[i].kind = "Inline"
             /\ \A j \in 1..(i - 1) : list[j].kind # "Inline"
    ELSE 0

\* set_inline_event_listener: the list of the type after it; "null" is None.
set_inline(list, h) ==
    IF inline_position(list) # 0
    THEN [list EXCEPT ![inline_position(list)].v = h]
    ELSE IF h # NoListener THEN Append(list, Inline(h)) ELSE list

ListenerCall(op, ty, e) == [op |-> op, ty |-> ty, entry |-> e, before |-> handlers]

NoListenerCall ==
    [op |-> "none", ty |-> "none", entry |-> Inline(NoListener),
     before |-> [t \in {} |-> <<>>]]

\* EventTargetMethods::AddEventListener(ty, listener, capture).
AddEventListener(ty, listener, capture) ==
    /\ listener_calls < MaxListenerCalls
    /\ listener_calls' = listener_calls + 1
    /\ listener_call' = ListenerCall("AddEventListener", ty, Additive(listener, capture))
    /\ handlers' =
           IF listener # NoListener
           THEN with_entry(handlers, ty,
                           add_entry(entry_of(handlers, ty),
                                     Additive(listener, capture), listener_eq))
           ELSE handlers
    /\ UNCHANGED listener_eq
    /\ ListenersOnly

\* EventTargetMethods::RemoveEventListener(ty, listener, capture).
RemoveEventListener(ty, listener, capture) ==
    /\ listener_calls < MaxListenerCalls
    /\ listener_calls' = listener_calls + 1
    /\ listener_call' = ListenerCall("RemoveEventListener", ty, Additive(listener, capture))
    /\ handlers' =
           IF listener # NoListener /\ ty \in DOMAIN handlers
           THEN with_entry(handlers, ty,
                           remove_entry(handlers[ty],
                                        Additive(listener, capture), listener_eq))
           ELSE handlers
    /\ UNCHANGED listener_eq
    /\ ListenersOnly

\* EventTarget::set_inline_event_listener(ty, listener).
set_inline_event_listener(ty, h) ==
    /\ listener_calls < MaxListenerCalls
    /\ listener_calls' = listener_calls + 1
    /\ listener_call' = ListenerCall("set_inline_event_listener", ty, Inline(h))
    /\ handlers' = with_entry(handlers, ty, set_inline(entry_of(handlers, ty), h))
    /\ UNCHANGED listener_eq
    /\ ListenersOnly

\* EventTarget::new_inherited: no handlers.
InitListeners ==
    /\ handlers = [t \in {} |-> <<>>]
    /\ listener_eq \in ListenerEqualities
    /\ listener_call = NoListenerCall
    /\ listener_calls = 0

IdleListeners ==
    /\ handlers = [t \in {} |-> <<>>]
    /\ listener_eq = "identity"
    /\ listener_call = NoListenerCall
    /\ listener_calls = 0

(***************************************************************************)
(* Specifications.                                                         *)
(***************************************************************************)
\* Roots on the stack of the owning script thread.
InitRootsSpec ==
    /\ debug_assertions \in BOOLEAN
    /\ InitRoots
    /\ InitTrusted
    /\ InitFlavor
    /\ IdleCell
    /\ IdleCast
    /\ IdleLoop
    /\ IdleRunnable
    /\ IdleThread
    /\ IdleListeners

NextRoots ==
    \/ \E o \in Objects : Root_new_box(o)
    \/ \E o \in Objects : Root_new(o)
    \/ \E r \in RootSlots : Root_from_ref(r)
    \/ \E r \in RootSlots : Root_drop(r)

SpecRoots == InitRootsSpec /\ [][NextRoots]_vars

\* Trusted handles, the LiveDOMReferences table and the script channel.
InitTrustedSpec ==
    /\ debug_assertions \in BOOLEAN
    /\ IdleRoots
    /\ InitTrusted
    /\ InitFlavor
    /\ IdleCell
    /\ IdleCast
    /\ IdleLoop
    /\ IdleRunnable
    /\ IdleThread
    /\ IdleListeners

NextTrusted ==
    \/ \E o \in Objects : Trusted_new(o)
    \/ \E t \in Threads, o \in Objects : Trusted_clone(t, o)
    \/ \E t \in Threads, o \in Objects : Trusted_drop(t, o)
    \/ \E t \in Threads, o \in Objects : Trusted_root(t, o)
    \/ \E t \in Threads : ScriptChan_send(t, RunnableMsg)
    \/ handle_msg_from_script

SpecTrusted == InitTrustedSpec /\ [][NextTrusted]_vars

\* Calls of the reference operations from every kind of thread.
InitFlavorSpec ==
    /\ debug_assertions \in BOOLEAN
    /\ IdleRoots
    /\ InitTrusted
    /\ InitFlavor
    /\ IdleCell
    /\ IdleCast
    /\ IdleLoop
    /\ IdleRunnable
    /\ IdleThread
    /\ IdleListeners

NextFlavor == \E t \in Threads, op \in Ops : Call(t, op)

SpecFlavor == InitFlavorSpec /\ [][NextFlavor]_vars

\* One MutNullableHeap used from every kind of thread.
InitCellSpec ==
    /\ debug_assertions \in BOOLEAN
    /\ IdleRoots
    /\ InitTrusted
    /\ InitFlavor
    /\ InitCell
    /\ IdleCast
    /\ IdleLoop
    /\ IdleRunnable
    /\ IdleThread
    /\ IdleListeners

NextCell ==
    \/ \E t \in Threads, cbv \in Objects : or_init(t, cbv)
    \/ \E t \in Threads, val \in CellValues : cell_set(t, val)
    \/ \E t \in Threads : cell_get(t)
    \/ \E t \in Threads, val \in Objects : mutheap_set(t, val)
    \/ \E t \in Threads : mutheap_get(t)

SpecCell == InitCellSpec /\ [][NextCell]_vars

\* is::<U>() and downcast::<U>() over the whole hierarchy.
InitCastSpec ==
    /\ debug_assertions \in BOOLEAN
    /\ IdleRoots
    /\ InitTrusted
    /\ InitFlavor
    /\ IdleCell
    /\ InitCast
    /\ IdleLoop
    /\ IdleRunnable
    /\ IdleThread
    /\ IdleListeners

NextCast == Downcast

SpecCast == InitCastSpec /\ [][NextCast]_vars

\* The event loop of one script thread and the senders of its five ports.
InitLoopSpec ==
    /\ debug_assertions = TRUE
    /\ IdleRoots
    /\ InitTrusted
    /\ InitFlavor
    /\ IdleCell
    /\ IdleCast
    /\ InitLoop
    /\ IdleRunnable
    /\ IdleThread
    /\ IdleListeners

NextLoop ==
    \/ \E src \in Sources : \E m \in PortMsgs(src) : Send(src, m)
    \/ steal_resizes
    \/ \E src \in Sources : select_wait(src)
    \/ collect
    \/ dispatch
    \/ issue_batched_reflows

SpecLoop == InitLoopSpec /\ [][NextLoop]_vars

\* The event loop with a thread that keeps running: each step of handle_msgs
\* that can be taken is taken in the end, and sel.wait() returns once a port of
\* the select has a message.  Nothing is asked of the senders.
LoopFairness ==
    /\ WF_vars(steal_resizes)
    /\ WF_vars(\E src \in Sources : select_wait(src))
    /\ WF_vars(collect)
    /\ WF_vars(dispatch)
    /\ WF_vars(issue_batched_reflows)

SpecLoopFair == SpecLoop /\ LoopFairness

\* The event loop fed from the control port alone, with mouse moves for both
\* pipelines and to both points.
NextBatch ==
    \/ \E m \in BatchMsgs : Send("control", m)
    \/ steal_resizes
    \/ \E src \in Sources : select_wait(src)
    \/ collect
    \/ dispatch
    \/ issue_batched_reflows

SpecBatch == InitLoopSpec /\ [][NextBatch]_vars

\* Cancellable runnables and the threads that cancel them.
InitRunnableSpec ==
    /\ debug_assertions = TRUE
    /\ IdleRoots
    /\ InitTrusted
    /\ InitFlavor
    /\ IdleCell
    /\ IdleCast
    /\ IdleLoop
    /\ InitRunnable
    /\ IdleThread
    /\ IdleListeners

NextRunnable ==
    \/ \E w \in Wrappers, b \in BOOLEAN : set_cancelled(w, b)
    \/ \E r \in Runnables : dispatch_runnable(r)
    \/ \E r \in Runnables : run_handler(r)

SpecRunnable == InitRunnableSpec /\ [][NextRunnable]_vars

\* The handlers of the thread, the teardown and the failsafe.
InitThreadSpec ==
    /\ debug_assertions = TRUE
    /\ IdleRoots
    /\ InitTrusted
    /\ InitFlavor
    /\ IdleCell
    /\ IdleCast
    /\ IdleRunnable
    /\ InitThread
    /\ IdleListeners

NextThread ==
    \/ \E id \in ThreadPipelines, size \in Sizes : handle_resize(id, size)
    \/ \E id \in ThreadPipelines, rect \in Sizes : handle_viewport(id, rect)
    \/ \E id \in ThreadPipelines : handle_freeze_msg(id)
    \/ \E id \in ThreadPipelines : handle_thaw_msg(id)
    \/ \E id \in ThreadPipelines : handle_timer_event(id)
    \/ \E id \in ThreadPipelines : handle_css_error_reporting(id)
    \/ \E id \in ThreadPipelines : notify_devtools(id)
    \/ \E id \in ThreadPipelines : exit_pipeline(id)
    \/ failsafe_neuter
    \/ failsafe_drop

SpecThread == InitThreadSpec /\ [][NextThread]_vars

\* The listeners of one EventTarget.
InitListenersSpec ==
    /\ debug_assertions = TRUE
    /\ IdleRoots
    /\ InitTrusted
    /\ InitFlavor
    /\ IdleCell
    /\ IdleCast
    /\ IdleLoop
    /\ IdleRunnable
    /\ IdleThread
    /\ InitListeners

NextListeners ==
    \/ \E ty \in EventTypes, l \in Listeners \cup {NoListener}, capture \in BOOLEAN :
           AddEventListener(ty, l, capture)
    \/ \E ty \in EventTypes, l \in Listeners \cup {NoListener}, capture \in BOOLEAN :
           RemoveEventListener(ty, l, capture)
    \/ \E ty \in EventTypes, h \in InlineHandlers \cup {NoListener} :
           set_inline_event_listener(ty, h)

SpecListeners == InitListenersSpec /\ [][NextListeners]_vars

(***************************************************************************)
(* Properties.                                                             *)
(***************************************************************************)
\* C1: while a Trusted handle of an object is outstanding, the object is rooted
\* (it has an entry in the LiveDOMReferences table) and has not been collected.
C1_TrustedKeepsRooted ==
    \A o \in Objects :
        LiveCount(o) > 0 => (o \in DOMAIN live_references /\ o \in heap)

\* C2: after any prefix of new / clone / drop operations on an object, the count
\* the table holds for it is the number of handles made minus the number dropped.
C2_RegistryAccounting ==
    \A o \in Objects : RegistryCount(o) = created[o] - dropped[o]

\* C3: a drop that takes the number of outstanding handles of an object to zero
\* sends exactly one RefcountCleanup for it on the script channel, and a drop
\* that leaves handles outstanding sends nothing.
C3_CleanupSentOnZero ==
    [][\A o \in Objects :
          dropped'[o] # dropped[o] =>
              IF created'[o] - dropped'[o] = 0
              THEN script_port' = Append(script_port, RefcountCleanup(o))
              ELSE script_port' = script_port]_vars

C6_RootOnlyOnOwner ==
    root_call.outcome = "returned" => root_call.thread = OwnerThread

\* C7: roots are additive: whatever Roots were created and destroyed, in any
\* order, the referent of every live Root is still allocated.
C7_RootsAdditive ==
    \A r \in RootSlots : roots[r] # NoPtr => roots[r] \in heap

\* A Root of an object was destroyed while another Root of it is alive.
C7_Witness ==
    \E r \in RootSlots : roots[r] # NoPtr /\ roots[r] = last_root_dropped

\* C8 as stated: a call of a script-flavor operation returns only on a thread
\* whose state is script, and a call of a layout-flavor one only under layout.
C8_AssertsFlavor ==
    call.outcome = "returned" =>
        /\ call.op \in ScriptOps => is_script(call.thread)
        /\ call.op \in LayoutOps => is_layout(call.thread)

\* C8 amended: in a build with debug assertions, and Root's derived clone apart,
\* a call returns only on a thread whose state matches the operation's flavor.
C8_AssertsFlavorInDebug ==
    (debug_assertions /\ call.outcome = "returned" /\ call.op # "Root::clone") =>
        /\ call.op \in ScriptOps => is_script(call.thread)
        /\ call.op \in LayoutOps => is_layout(call.thread)

\* A call reached an assertion failure on a thread of the wrong flavor.
C8_Witness ==
    /\ debug_assertions
    /\ call.outcome = "assertion failure"
    /\ call.op \in ScriptOps
    /\ is_layout(call.thread)

\* C9: is::<U>() is true, and downcast::<U>() returns the same identity, exactly
\* when the object's type id denotes U or an interface declared DerivedFrom<U>;
\* otherwise downcast returns nothing.
C9_DowncastFollowsHierarchy ==
    cast.done =>
        LET expected == \/ InterfaceOf(cast_in.ty) = cast_in.to
                        \/ DerivedFrom(InterfaceOf(cast_in.ty), cast_in.to)
        IN /\ cast.is = expected
           /\ cast.result = IF expected THEN cast_in.ptr ELSE NoPtr

\* C10: or_init on an empty cell invokes the initializer, stores its result and
\* returns it; on a non-empty cell it returns the stored value and invokes
\* nothing; between two sets the initializer runs at most once and every or_init
\* returns the same identity.
C10_OrInitOnce ==
    /\ cb_calls <= 1
    /\ Cardinality(or_init_returns) <= 1
    /\ (cell_call.op = "or_init" /\ cell_call.outcome = "returned") =>
          /\ cell_call.invoked <=> (cell_call.before = NoPtr)
          /\ cell_call.result = cell
          /\ cell_call.result # NoPtr
          /\ or_init_returns = {cell}
          /\ cell_call.before # NoPtr => cell_call.result = cell_call.before

\* A second or_init returned the value the first one had installed.
C10_Witness ==
    /\ cb_calls = 1
    /\ cell_call.op = "or_init"
    /\ cell_call.outcome = "returned"
    /\ ~cell_call.invoked

\* C11: get of a MutHeap or MutNullableHeap returns the value given by the most
\* recent set (by new when there was none), the nullable get returns None exactly
\* when that value was None, and get leaves the cell as it was.
C11_GetReturnsLastSet ==
    /\ (cell_call.op = "get" /\ cell_call.outcome = "returned") =>
          /\ cell_call.result = cell_last_set
          /\ (cell_call.result = NoPtr) <=> (cell_last_set = NoPtr)
          /\ cell = cell_call.before
    /\ (cell_call.op = "MutHeap::get" /\ cell_call.outcome = "returned") =>
          /\ cell_call.result = mutheap_last_set
          /\ cell_call.result # NoPtr
          /\ mutheap = cell_call.before

\* A get returned a Root of the object the cell had been given.
C11_Witness ==
    /\ cell_call.op = "get"
    /\ cell_call.outcome = "returned"
    /\ cell_call.result # NoPtr
    /\ cell_call.result = cell_last_set

(***************************************************************************)
(* Properties of the event loop.                                           *)
(***************************************************************************)
\* The positions of seq that hold a message of kind k.
KindAt(seq, k) == {i \in 1..Len(seq) : seq[i].kind = k}

\* The positions of seq that hold a TickAllAnimations of pipeline q.
TicksAt(seq, q) == {i \in KindAt(seq, "TickAllAnimations") : seq[i].p = q}

FirstOf(S) == CHOOSE i \in S : \A j \in S : i <= j

LastOf(S) == CHOOSE i \in S : \A j \in S : j <= i

InBatch(m) == m \in Range(sequential)

NotMouseMove(m) == m.kind # "MouseMoveEvent"

\* C12: when the messages collected for a batch hold mouse moves, the batch
\* holds exactly one, the last one received, at the position where the first
\* was queued, and the other batched messages keep their collection order.
C12_MouseMoveCoalescing ==
    LET got == KindAt(collected, "MouseMoveEvent")
        kept == KindAt(sequential, "MouseMoveEvent")
    IN /\ got # {} =>
             /\ Cardinality(kept) = 1
             /\ \A i \in kept :
                   /\ sequential[i] = collected[LastOf(got)]
                   /\ i = 1 + Len(SelectSeq(SubSeq(collected, 1, FirstOf(got) - 1),
                                            InBatch))
       /\ SelectSeq(sequential, NotMouseMove) =
              SelectSeq(collected, LAMBDA m : NotMouseMove(m) /\ InBatch(m))

\* A batch was collected from two mouse moves with a batched message between them.
C12_Witness ==
    /\ pc = "dispatching"
    /\ \E i, j, k \in 1..Len(collected) :
          /\ i < j /\ j < k
          /\ collected[i].kind = "MouseMoveEvent"
          /\ collected[k].kind = "MouseMoveEvent"
          /\ NotMouseMove(collected[j])
          /\ InBatch(collected[j])

\* C13: a batch holds at most one TickAllAnimations per pipeline, the first one
\* received, at its place in the collection order; later ticks of that pipeline
\* are dropped and ticks of other pipelines are kept.
C13_TickCoalescing ==
    /\ \A q \in Pipelines :
          /\ Cardinality(TicksAt(sequential, q)) <= 1
          /\ TicksAt(collected, q) # {} =>
                \E i \in TicksAt(sequential, q) :
                    sequential[i] = collected[FirstOf(TicksAt(collected, q))]
    /\ SelectSeq(sequential, NotMouseMove) =
           SelectSeq(collected,
                     LAMBDA m :
                         /\ m.kind \notin {"AttachLayout", "Resize", "Viewport",
                                           "MouseMoveEvent"}
                         /\ m.kind = "TickAllAnimations" =>
                                m = collected[FirstOf(TicksAt(collected, m.p))])

\* A batch was collected from two ticks of one pipeline and a tick of another.
C13_Witness ==
    /\ pc = "dispatching"
    /\ Cardinality(TicksAt(collected, "p1")) = 2
    /\ Cardinality(TicksAt(collected, "p2")) = 1

\* C14: no Resize enters the batch; the pending resize of a page is the size of
\* the latest Resize received for it; and when the next iteration steals the
\* pending resizes, it handles exactly one resize event, of that size, for
\* each page that had one.
C14_ResizeOutOfBand ==
    /\ KindAt(sequential, "Resize") = {}
    /\ \A q \in Range(page_tree) : resize_event[q] = resize_seen[q]
    /\ pc = "waiting" =>
          \A q \in Pipelines :
              LET hs == {i \in 1..Len(resize_handled) : resize_handled[i].p = q}
              IN IF resize_due[q] # 0
                 THEN /\ Cardinality(hs) = 1
                      /\ \A i \in hs : resize_handled[i].size = resize_due[q]
                      /\ window_size[q] = resize_due[q]
                 ELSE hs = {}

\* Two Resize messages came in one batch and one resize event was handled at
\* the start of the next iteration.
C14_Witness ==
    /\ pc = "waiting"
    /\ Len(resize_handled) = 1
    /\ Cardinality(KindAt(collected, "Resize")) >= 2
    /\ collected[LastOf(KindAt(collected, "Resize"))].v = resize_handled[1].size
    /\ \E i \in KindAt(collected, "Resize") : collected[i].v # resize_handled[1].size

C16_SendOrder ==
    \A i, j \in 1..Len(effects) :
        (i < j /\ effects[i].src = effects[j].src) => effects[i].n < effects[j].n

\* How a message is applied: while collecting, as the coalesced mouse move, or
\* by the dispatch of the batch.
C16_Group(m) ==
    CASE m.kind \in {"Resize", "Viewport"} -> "out of band"
      [] m.kind = "MouseMoveEvent" -> "mouse move"
      [] OTHER -> "batched"

\* C16 amended: of two messages sent on one channel and applied the same way
\* (both out of band, both mouse moves, or both batched otherwise), the one
\* sent first is applied first.
C16_SendOrderWithinGroup ==
    \A i, j \in 1..Len(effects) :
        (/\ i < j
         /\ effects[i].src = effects[j].src
         /\ C16_Group(effects[i]) = C16_Group(effects[j]))
            => effects[i].n < effects[j].n

\* Two batched messages of the control channel were dispatched in send order,
\* after a message of the channel sent later than both was applied out of band.
C16_Witness ==
    \E i, j, k \in 1..Len(effects) :
        /\ i < j /\ j < k
        /\ effects[i].src = "control" /\ effects[j].src = "control"
        /\ effects[k].src = "control"
        /\ C16_Group(effects[i]) = "out of band"
        /\ C16_Group(effects[j]) = "batched" /\ C16_Group(effects[k]) = "batched"
        /\ effects[j].n < effects[k].n
        /\ effects[k].n < effects[i].n

\* C17: each poll of the collecting loop takes the next message from the first
\* port with a message in the order constellation control, internal script,
\* timer, devtools, image cache, and collecting ends exactly at the poll that
\* finds all five empty.
C17_PollPriority ==
    LET order == <<"control", "script", "timer", "devtools", "image">>
        rank(s) == CHOOSE i \in 1..Len(order) : order[i] = s
    IN /\ last_poll.taken # "unpolled" =>
             /\ (last_poll.taken = "none") <=> (last_poll.ready = {})
             /\ last_poll.taken # "none" =>
                   /\ last_poll.taken \in last_poll.ready
                   /\ \A s \in last_poll.ready : rank(last_poll.taken) <= rank(s)
       /\ (pc = "collecting" /\ last_poll.taken # "unpolled") =>
             /\ last_poll.taken # "none"
             /\ event.src = last_poll.taken
       /\ pc = "dispatching" => last_poll.taken = "none"

\* A poll found the script port and a port of lower priority ready and took
\* the message of the script port.
C17_Witness ==
    /\ pc = "collecting"
    /\ last_poll.taken = "script"
    /\ Cardinality(last_poll.ready) >= 2

\* C18: a handle_msgs that returns true has issued exactly one batched reflow
\* for every page of the tree, with reason ImageLoaded when the page had
\* pending reflows and MissingExplicitReflow when it had none.
C18_ReflowCompleteness ==
    (pc = "idle" /\ returned = "true") =>
        /\ \A q \in Range(page_tree) :
              Cardinality({i \in 1..Len(reflows) : reflows[i].p = q}) = 1
        /\ \A i \in 1..Len(reflows) :
              /\ reflows[i].p \in Range(page_tree)
              /\ reflows[i].reason = IF reflows[i].pending > 0
                                     THEN "ImageLoaded"
                                     ELSE "MissingExplicitReflow"

\* The batch held an image cache result whose responder asked for a reflow.
C18_Witness ==
    /\ pc = "idle"
    /\ returned = "true"
    /\ \E i \in 1..Len(reflows) : reflows[i].pending > 0

C20_TerminalLeavesNoPage ==
    /\ (returned = "false") <=> (pc = "exited")
    /\ pc = "exited" =>
          /\ handled # <<>>
          /\ handled[Len(handled)].kind = "ExitPipeline"
          /\ incomplete_loads = <<>>
          /\ page_tree = <<>>

\* C20 amended: handle_msgs returns false only from the dispatch of an
\* ExitPipeline, and then no in-progress load is left and every page of the
\* tree, which still holds the root page, has its frame severed.
C20_TerminalLeavesNoFrame ==
    /\ (returned = "false") <=> (pc = "exited")
    /\ pc = "exited" =>
          /\ handled # <<>>
          /\ handled[Len(handled)].kind = "ExitPipeline"
          /\ incomplete_loads = <<>>
          /\ frames \cap Range(page_tree) = {}

\* The loop returned after messages of other kinds had been dispatched.
C20_Witness ==
    /\ pc = "exited"
    /\ Len(handled) >= 2
    /\ page_tree # <<>>

C30_FailureIsolated ==
    \A i \in 1..Len(handled) :
        handler_panics(page_tree, handled[i]) => pc # "panicked"

(***************************************************************************)
(* Properties of the handlers, the teardown and the failsafe.              *)
(***************************************************************************)
\* What the last handler call did to layouts, contexts and frames.
CallLog == SubSeq(layout_log, thread_call.log_from + 1, Len(layout_log))

InLoads(loads, id) == \E i \in 1..Len(loads) : loads[i].pipeline_id = id

LogEvent(q, m) == [to |-> q, msg |-> m]

\* C21: an ExitPipeline for a pipeline with a load in progress takes that load
\* out of the queue and leaves the page tree alone; when it returns it has done
\* the handshake with the layout of the load (or found its channel closed), and
\* it gives the terminal signal exactly when no load is left and there is no
\* root page; otherwise the loop goes on.
C21_ExitOfLoad ==
    (/\ thread_call.op = "ExitPipeline"
     /\ InLoads(thread_call.loads_before, thread_call.id))
        => LET id == thread_call.id
               before == thread_call.loads_before
               k == CHOOSE i \in 1..Len(before) :
                        /\ before[i].pipeline_id = id
                        /\ \A j \in 1..(i - 1) : before[j].pipeline_id # id
           IN /\ incomplete_loads = SubSeq(before, 1, k - 1)
                                        \o SubSeq(before, k + 1, Len(before))
              /\ page_tree = thread_call.tree_before
              /\ id \in closed_pipelines
              /\ thread_call.outcome = "returned" =>
                    /\ CallLog \in {<<LogEvent(id, "PrepareToExit"), LogEvent(id, "reply"),
                                      LogEvent(id, "ExitNow")>>,
                                    <<LogEvent(id, "PrepareToExit failed")>>}
                    /\ thread_call.terminal <=>
                           (incomplete_loads = <<>> /\ page_tree = <<>>)
                    /\ thread_call.terminal =>
                           thread_pc \in {"returned", "neutered", "done"}
                    /\ ~thread_call.terminal => thread_pc = "running"

\* The exit of the last load of a thread without a root page, after the full
\* handshake: the terminal signal.
C21_Witness ==
    /\ thread_call.op = "ExitPipeline"
    /\ thread_call.target = "load"
    /\ thread_call.terminal
    /\ Len(thread_call.loads_before) = 1
    /\ Len(CallLog) = 3
    /\ thread_pc = "returned"

\* C22: a layout is sent ExitNow only after a PrepareToExit that was sent to it
\* with success and after the reply to it was received; a reply is waited for
\* only after such a send; and a layout whose PrepareToExit send failed gets no
\* wait and no ExitNow.
C22_ExitNowAfterReply ==
    \A k \in 1..Len(layout_log) :
        LET q == layout_log[k].to
        IN /\ layout_log[k].msg = "ExitNow" =>
                 \E i, j \in 1..(k - 1) :
                     /\ i < j
                     /\ layout_log[i] = LogEvent(q, "PrepareToExit")
                     /\ layout_log[j] = LogEvent(q, "reply")
           /\ layout_log[k].msg = "reply" =>
                 k > 1 /\ layout_log[k - 1] = LogEvent(q, "PrepareToExit")
           /\ layout_log[k].msg = "PrepareToExit failed" =>
                 \A j \in (k + 1)..Len(layout_log) :
                     layout_log[j].to = q => layout_log[j].msg \notin {"reply", "ExitNow"}

\* One teardown met a layout whose channel was closed and another that replied
\* and was sent ExitNow.
C22_Witness ==
    /\ \E k \in 1..Len(layout_log) : layout_log[k].msg = "PrepareToExit failed"
    /\ \E k \in 1..Len(layout_log) : layout_log[k].msg = "ExitNow"

\* C23: an ExitPipeline for the root page that returns gives the terminal
\* signal after it asked the layout of every page of the tree to prepare to
\* exit, detached the context of every page and severed its frame, and it sent
\* no ExitNow before the contexts of all pages were detached.
C23_RootExitTearsDownTree ==
    (/\ thread_call.op = "ExitPipeline"
     /\ thread_call.target = "root"
     /\ thread_call.outcome = "returned")
        => /\ thread_call.terminal
           /\ \A q \in Range(thread_call.tree_before) :
                 /\ \E i \in 1..Len(CallLog) :
                        CallLog[i] \in {LogEvent(q, "PrepareToExit"),
                                        LogEvent(q, "PrepareToExit failed")}
                 /\ \E i \in 1..Len(CallLog) : CallLog[i] = LogEvent(q, "clear_js_runtime")
                 /\ \E i \in 1..Len(CallLog) : CallLog[i] = LogEvent(q, "set_frame(None)")
                 /\ ~windows[q].js_runtime
                 /\ q \notin frames
           /\ \A k \in 1..Len(CallLog) :
                 CallLog[k].msg = "ExitNow" =>
                     \A q \in Range(thread_call.tree_before) :
                         \E i \in 1..(k - 1) : CallLog[i] = LogEvent(q, "clear_js_runtime")

\* The root of a tree of two pages exited and both layouts were sent ExitNow.
C23_Witness ==
    /\ thread_call.op = "ExitPipeline"
    /\ thread_call.target = "root"
    /\ thread_call.outcome = "returned"
    /\ Len(thread_call.tree_before) = 2
    /\ Cardinality({k \in 1..Len(CallLog) : CallLog[k].msg = "ExitNow"}) = 2

C25_NeuteredFailsafeIsNoOp ==
    /\ thread_pc = "neutered" => ~failsafe_owner
    /\ (thread_pc = "done" /\ thread_call.terminal) =>
           /\ \A k \in 1..Len(layout_log) :
                  layout_log[k].msg # "clear_js_runtime_for_script_deallocation"
           /\ \A q \in ThreadPipelines : windows[q].detached <= 1
           /\ \A q \in ThreadPipelines :
                  windows[q].detached =
                      Cardinality({k \in 1..Len(layout_log) :
                                      layout_log[k] = LogEvent(q, "clear_js_runtime")})

\* The root pipeline exited, start returned and the failsafe was dropped.
C25_Witness ==
    /\ thread_pc = "done"
    /\ thread_call.terminal
    /\ thread_call.target = "root"
    /\ \E q \in ThreadPipelines : windows[q].detached = 1

\* C26: a runnable whose flag was set when it was dispatched is dropped and
\* never run, one whose flag was clear is started, and a started handler goes
\* on to its end whatever is stored in the flag afterwards.
C26_CancelledNeverRuns ==
    /\ [](\A r \in Runnables :
             /\ run_state[r] \in {"running", "done"} => flag_at_dispatch[r] = "clear"
             /\ run_state[r] = "discarded" => flag_at_dispatch[r] = "set"
             /\ run_state[r] = "queued" => flag_at_dispatch[r] = "unread")
    /\ [][\A r \in Runnables :
             run_state[r] = "running" => run_state'[r] \in {"running", "done"}]_vars

\* A wrapped runnable ran to its end though its flag was set after it started,
\* and a later runnable of the same wrapper was dropped.
C26_Witness ==
    \E r, q \in Runnables :
        /\ runnable_of[r] # NoWrapper
        /\ runnable_of[q] = runnable_of[r]
        /\ run_state[r] = "done"
        /\ run_state[q] = "discarded"
        /\ cancelled[runnable_of[r]]

\* C28: nothing is sent to devtools without a devtools channel, and a CSS error
\* is reported only for a window with live devtools updates.
C28_DevtoolsOutOnlyWithChan ==
    /\ ~devtools_chan => devtools_out = <<>>
    /\ \A i \in 1..Len(devtools_out) :
           devtools_out[i].msg = "ReportCSSError" =>
               windows[devtools_out[i].p].live_devtools_updates

\* A new global was announced and a CSS error reported.
C28_Witness ==
    /\ \E i \in 1..Len(devtools_out) : devtools_out[i].msg = "NewGlobal"
    /\ \E i \in 1..Len(devtools_out) : devtools_out[i].msg = "ReportCSSError"

ScenarioBatch ==
    /\ Len(collected) = 3
    /\ collected[1].kind = "Resize" /\ collected[1].p = RootPipeline /\ collected[1].v = 2
    /\ collected[2].kind = "MouseMoveEvent" /\ collected[2].p = RootPipeline
    /\ collected[2].v = 1
    /\ collected[3].kind = "MouseMoveEvent" /\ collected[3].p = RootPipeline
    /\ collected[3].v = 2

\* The mouse moves delivered and the reflows issued for the scenario batch.
ScenarioDelivered ==
    /\ Len(SelectSeq(handled, LAMBDA m : m.kind = "MouseMoveEvent")) = 1
    /\ \A i \in 1..Len(handled) :
           handled[i].kind = "MouseMoveEvent" =>
               handled[i].p = RootPipeline /\ handled[i].v = 2
    /\ reflows = <<[p |-> RootPipeline, reason |-> "MissingExplicitReflow", pending |-> 0]>>

\* C31 as stated: when handle_msgs returns from the scenario batch the window
\* of the page has the size 800x600, one mouse move was delivered, to (20,20),
\* and one reflow was issued, with the reason MissingExplicitReflow.
C31_ScenarioAtReturn ==
    (ScenarioBatch /\ pc = "idle" /\ returned = "true")
        => window_size[RootPipeline] = 2 /\ ScenarioDelivered

\* C31 amended: when handle_msgs returns from the scenario batch the size is
\* held by the window as its pending resize event, one mouse move was delivered,
\* to (20,20), and one reflow was issued, with the reason MissingExplicitReflow;
\* the next call of handle_msgs steals the resize event and handles it, and the
\* window then has the size 800x600.  The size of a window changes nowhere else.
C31_ScenarioResizeNextCall ==
    /\ []((ScenarioBatch /\ pc = "idle" /\ returned = "true")
             => /\ resize_event[RootPipeline] = 2
                /\ ScenarioDelivered)
    /\ []((ScenarioBatch /\ pc = "waiting")
             => /\ resize_event[RootPipeline] = 0
                /\ resize_handled = <<[p |-> RootPipeline, size |-> 2]>>
                /\ window_size[RootPipeline] = 2
                /\ ScenarioDelivered)
    /\ [][window_size' # window_size => pc = "idle" /\ pc' = "waiting"]_vars

\* The scenario batch was dispatched and the next call took up its resize.
C31_Witness ==
    /\ ScenarioBatch
    /\ pc = "waiting"
    /\ window_size[RootPipeline] = 2
    /\ Len(handled) = 1

\* C32: in every state of the running thread the root page made by
\* initialize_default_content is in the page slot and no load is in progress,
\* so no message handled took the branch of a load in progress.
C32_RootPageAndNoLoads ==
    /\ page_tree # <<>>
    /\ Head(page_tree) = RootPipeline
    /\ incomplete_loads = <<>>
    /\ \A i \in 1..Len(effects) :
           /\ effects[i].kind \in {"Resize", "Viewport"} =>
                  handle_resize_target(page_tree, incomplete_loads, effects[i].p) # "load"
           /\ effects[i].kind = "ExitPipeline" =>
                  exit_branch(page_tree, incomplete_loads, effects[i].p) # "load"

\* The root pipeline exited after a resize was applied and an exit for a
\* pipeline without a page was handled.
C32_Witness ==
    /\ pc = "exited"
    /\ \E i \in 1..Len(effects) : effects[i].kind = "Resize"
    /\ \E i \in 1..Len(effects) :
           effects[i].kind = "ExitPipeline" /\ effects[i].p # RootPipeline

\* C33: a batch holds at most one mouse move whatever pipelines the collected
\* mouse moves are for; the one it holds has the pipeline and the point of the
\* last mouse move collected, and a mouse move for one pipeline is not in the
\* batch once a later mouse move for another pipeline was collected.
C33_OneMouseMoveAcrossPipelines ==
    LET got == KindAt(collected, "MouseMoveEvent")
        kept == KindAt(sequential, "MouseMoveEvent")
    IN /\ Cardinality(kept) <= 1
       /\ got # {} =>
              /\ kept # {}
              /\ \A i \in kept :
                     /\ sequential[i].p = collected[LastOf(got)].p
                     /\ sequential[i].v = collected[LastOf(got)].v
       /\ \A i, j \in got :
              (i < j /\ collected[i].p # collected[j].p) => ~InBatch(collected[i])

\* A mouse move for the root page was collected, then one for the other
\* pipeline, and the batch to dispatch holds the second.
C33_Witness ==
    /\ pc = "dispatching"
    /\ \E i, j \in 1..Len(collected) :
           /\ i < j
           /\ collected[i].kind = "MouseMoveEvent" /\ collected[i].p = RootPipeline
           /\ collected[j].kind = "MouseMoveEvent" /\ collected[j].p # RootPipeline
    /\ \E i \in 1..Len(sequential) :
           sequential[i].kind = "MouseMoveEvent" /\ sequential[i].p # RootPipeline

\* A message collected for the batch is settled: handled out of band or
\* dispatched, or dropped by the coalescing of ticks and mouse moves, or left
\* behind by the return of the loop on an ExitPipeline.
Settled(m) ==
    \/ m \in Range(effects)
    \/ m.kind \in {"TickAllAnimations", "MouseMoveEvent"} /\ ~InBatch(m)
    \/ pc = "exited"

\* The collection of the batch is over and every message collected is settled.
AllSettled ==
    /\ pc # "collecting"
    /\ \A i \in 1..Len(collected) : Settled(collected[i])

\* C34: no message of the batch is dispatched and no reflow is issued before a
\* poll found every port empty, and once the ports stay empty every message
\* received for the batch is settled in the end.
C34_EveryMessageSettled ==
    /\ [](pc = "collecting" => handled = <<>> /\ reflows = <<>>)
    /\ [](pc = "dispatching" => last_poll.taken = "none" /\ last_poll.ready = {})
    /\ (pc = "collecting") ~> AllSettled

\* The k-th event of the last call is a PrepareToExit that was answered.
Answered(k) ==
    /\ k < Len(CallLog)
    /\ CallLog[k + 1] = LogEvent(CallLog[k].to, "reply")

\* C35: an ExitPipeline that reaches a layout returns exactly when every layout
\* that took its PrepareToExit replied.  When one does not, the call stops at
\* the first such layout with no context detached, no frame severed and no
\* ExitNow sent: it waits for ever when the layout is silent, and the thread
\* panics when the reply channel was dropped.
C35_TeardownWaitsForReplies ==
    /\ []((/\ thread_call.op = "ExitPipeline"
           /\ thread_call.target \in {"load", "root", "child"})
            => /\ thread_call.outcome = "returned" <=>
                      \A k \in 1..Len(CallLog) :
                          CallLog[k].msg = "PrepareToExit" => Answered(k)
               /\ thread_call.outcome = "blocked" <=>
                      /\ thread_pc = "blocked"
                      /\ CallLog # <<>>
                      /\ CallLog[Len(CallLog)].msg = "PrepareToExit"
               /\ thread_call.outcome = "panicked" <=>
                      /\ thread_pc \in {"unwinding", "done"}
                      /\ \E k \in 1..Len(CallLog) : CallLog[k].msg = "recv failed"
               /\ thread_pc \in {"blocked", "unwinding"} =>
                      /\ \A k \in 1..Len(CallLog) :
                             CallLog[k].msg \notin {"clear_js_runtime", "set_frame(None)",
                                                    "ExitNow"}
                      /\ \A k \in 1..(Len(CallLog) - 2) :
                             CallLog[k].msg = "PrepareToExit" => Answered(k)
                      /\ windows = thread_call.windows_before)
    /\ [][thread_pc # "blocked"]_vars

\* The root of a tree of two pages exits; the layout of the root replied and the
\* layout of the child is silent: the thread waits with nothing detached.
C35_Witness ==
    /\ thread_pc = "blocked"
    /\ thread_call.target = "root"
    /\ Len(thread_call.tree_before) = 2
    /\ Len(CallLog) = 3
    /\ \A q \in Range(thread_call.tree_before) : windows[q].js_runtime

\* The last call is an ExitPipeline for a pipeline that is neither a load in
\* progress nor a page of the tree.
ExitOfUnknown ==
    /\ thread_call.op = "ExitPipeline"
    /\ ~InLoads(thread_call.loads_before, thread_call.id)
    /\ thread_call.id \notin Range(thread_call.tree_before)

\* The last call is an ExitPipeline for a descendant page.
ExitOfDescendant ==
    /\ thread_call.op = "ExitPipeline"
    /\ ~InLoads(thread_call.loads_before, thread_call.id)
    /\ thread_call.tree_before # <<>>
    /\ thread_call.id \in Range(thread_call.tree_before)
    /\ thread_call.id # Head(thread_call.tree_before)

\* The call recorded the id and left tree, loads, windows and layouts alone.
ExitOnlyRecorded ==
    /\ thread_call.id \in closed_pipelines
    /\ page_tree = thread_call.tree_before
    /\ incomplete_loads = thread_call.loads_before
    /\ windows = thread_call.windows_before
    /\ CallLog = <<>>

\* A returning exit of a descendant page: not terminal, the page is out of the
\* tree, its layout was asked to prepare to exit, its context is detached and
\* its frame severed; the other pages are as before.
ExitOfDescendantDone ==
    LET id == thread_call.id
    IN /\ ~thread_call.terminal
       /\ thread_pc = "running"
       /\ page_tree = SelectSeq(thread_call.tree_before, LAMBDA q : q # id)
       /\ incomplete_loads = thread_call.loads_before
       /\ id \in closed_pipelines
       /\ CallLog \in {<<LogEvent(id, "PrepareToExit"), LogEvent(id, "reply"),
                         LogEvent(id, "clear_js_runtime"), LogEvent(id, "set_frame(None)"),
                         LogEvent(id, "ExitNow")>>,
                       <<LogEvent(id, "PrepareToExit failed"),
                         LogEvent(id, "clear_js_runtime"), LogEvent(id, "set_frame(None)")>>}
       /\ ~windows[id].js_runtime
       /\ id \notin frames
       /\ \A q \in ThreadPipelines \ {id} : windows[q] = thread_call.windows_before[q]

Without(list, e) == SelectSeq(list, LAMBDA x : x # e)

\* The last call named a listener, and its (listener, phase) pair was in the
\* list of its type before the call.
PairWasPresent ==
    /\ listener_call.entry.v # NoListener
    /\ listener_call.ty \in DOMAIN listener_call.before
    /\ listener_call.entry \in Range(listener_call.before[listener_call.ty])

\* No list holds two additive entries with the same listener and phase.
NoTwoSameAdditive ==
    \A ty \in DOMAIN handlers :
        \A i, j \in 1..Len(handlers[ty]) :
            (i # j /\ handlers[ty][i].kind = "Additive") =>
                handlers[ty][i] # handlers[ty][j]

\* AddEventListener of a pair that is present changes nothing.
AddOfPresentIsNoOp ==
    (listener_call.op = "AddEventListener" /\ PairWasPresent) =>
        handlers = listener_call.before

\* RemoveEventListener of a present pair removes its entry and keeps every
\* other entry of every type; of an absent pair it removes nothing.
RemoveTakesOnlyItsEntry ==
    listener_call.op = "RemoveEventListener" =>
        IF PairWasPresent
        THEN handlers = [listener_call.before EXCEPT
                            ![listener_call.ty] = Without(@, listener_call.entry)]
        ELSE handlers = listener_call.before

\* C37: after any sequence of AddEventListener and RemoveEventListener calls no
\* list holds two additive entries with the same listener and the same phase,
\* adding a present (listener, phase) pair changes nothing, and removing a pair
\* removes exactly its one entry and nothing else.
C37_ListenersAreASet ==
    /\ NoTwoSameAdditive
    /\ AddOfPresentIsNoOp
    /\ RemoveTakesOnlyItsEntry

\* The same three statements with "the same listener" read as the equality the
\* entries are compared with.
ListenersAreASetUnderEq ==
    /\ \A ty \in DOMAIN handlers :
           \A i, j \in 1..Len(handlers[ty]) :
               (i # j /\ handlers[ty][i].kind = "Additive") =>
                   ~EventListenerEntry_eq(handlers[ty][i], handlers[ty][j], listener_eq)
    /\ (/\ listener_call.op = "AddEventListener"
        /\ listener_call.entry.v # NoListener
        /\ Vec_contains(entry_of(listener_call.before, listener_call.ty),
                        listener_call.entry, listener_eq)) =>
           handlers = listener_call.before
    /\ (/\ listener_call.op = "RemoveEventListener"
        /\ listener_call.entry.v # NoListener
        /\ listener_call.ty \in DOMAIN listener_call.before) =>
           LET list == listener_call.before[listener_call.ty]
               k == Vec_position(list, listener_call.entry, listener_eq)
           IN  handlers = [listener_call.before EXCEPT
                              ![listener_call.ty] =
                                  IF k = 0 THEN list ELSE Vec_remove(list, k)]


(***************************************************************************)
(* Properties of the arms of handle_msg_from_constellation.                *)
(***************************************************************************)
\* The kinds whose arm of handle_msg_from_constellation is a panic.
HandledEarlier == {"AttachLayout", "Viewport", "Resize", "ExitPipeline"}

\* C38: none of AttachLayout, Viewport, Resize and ExitPipeline reaches
\* handle_msg_from_constellation: the first three never get on sequential, and
\* an ExitPipeline that is dispatched has the arm of handle_exit_pipeline_msg,
\* which records its pipeline in closed_pipelines.
C38_HandledEarlierNeverGeneric ==
    /\ \A i \in 1..Len(sequential) :
           sequential[i].kind \notin {"AttachLayout", "Viewport", "Resize"}
    /\ \A i \in 1..Len(handled) :
           /\ dispatch_arm(handled[i]) = "handle_msg_from_constellation" =>
                  handled[i].kind \notin HandledEarlier
           /\ handled[i].kind = "ExitPipeline" => handled[i].p \in closed_pipelines

\* A batch with a Resize, a Viewport and an ExitPipeline has been collected and
\* dispatched: the exit was handled and the other two were not.
C38_Witness ==
    /\ \E i \in 1..Len(collected) : collected[i].kind = "Resize"
    /\ \E i \in 1..Len(collected) : collected[i].kind = "Viewport"
    /\ \E i \in 1..Len(handled) : handled[i].kind = "ExitPipeline"
    /\ pc = "exited"

====
